---- MODULE Spec2Model ----
(***************************************************************************)
(* Model of the enterprise API views (enterprise/api/v1/views.py):         *)
(*   - EnterpriseCustomerViewSet.enroll_learners_in_courses                 *)
(*   - EnterpriseSubsidyFulfillmentViewSet.cancel_enrollment                *)
(*   - LicensedEnterpriseCourseEnrollmentViewSet.license_revoke,            *)
(*     bulk_licensed_enrollments_expiration and _terminate_enrollment       *)
(* Every handler runs to completion inside one request, so a handler is one *)
(* action: it takes the database from the state before the request to the  *)
(* state after it and leaves the handler's locals and its response in the   *)
(* per-request variables.  Deliver hands the response back and clears them. *)
(***************************************************************************)
EXTENDS Integers, Sequences, FiniteSets, TLC

\* -------------------------------------------------------------------------
\* Bounds of the model
\* -------------------------------------------------------------------------
\* Longest enrollments_info list of one bulk-enrollment request.
MaxBatch == 2
\* Number of courses learner "u1" holds a licensed enrollment in.
MaxLicensed == 2
\* Modification times of course enrollments are 0..MaxTime.
MaxTime == 2
\* The ignore_enrollments_modified_after instant of a sweep that gives one.
CutoffTime == 1
MaxHistory == 3

\* -------------------------------------------------------------------------
\* Program constants
\* -------------------------------------------------------------------------
HTTP_200_OK == 200
HTTP_201_CREATED == 201
HTTP_202_ACCEPTED == 202
HTTP_400_BAD_REQUEST == 400
HTTP_404_NOT_FOUND == 404
HTTP_409_CONFLICT == 409
HTTP_422_UNPROCESSABLE_ENTITY == 422
HTTP_500_INTERNAL_SERVER_ERROR == 500

\* Python's None, and None where the model holds a time.
None == "None"
NoTime == -1

\* -------------------------------------------------------------------------
\* The world the requests run in
\* -------------------------------------------------------------------------
\* The customer whose bulk-enrollment endpoint is called (self.get_object()),
\* and a second tenant.
Customers == {"ent1", "ent2"}
EnrollCustomer == "ent1"

\* auth User table: id -> email.  "u1".."u3" are learners that are linked
\* already; "u4" has an account and no link yet.
UserEmail == [u \in {"u1", "u2", "u3", "u4"} |-> "e" \o u]
Accounts == DOMAIN UserEmail

\* What a bulk-enrollment request may name: "u4" resolves to an account,
\* "u9" resolves to none; "eu4" is the email of account "u4", "e5" is the
\* email of nobody.
RequestUserIds == {"u4", "u9"}
RequestEmails == {"eu4", "e5"}

\* What an unlink request may name: the emails of the linked learners "u1"
\* and "u2", of "u3" who belongs to another customer, and "e6", the email of
\* nobody, invited and pending.
UnlinkEmails == {"eu1", "eu2", "eu3", "e6"}

\* EnterpriseCustomerInviteKey rows: key -> customer; and the accounts that
\* redeem keys.
InviteKeyCustomer == [k \in {"ik1", "ik2"} |-> IF k = "ik1" THEN "ent1" ELSE "ent2"]
InviteKeys == DOMAIN InviteKeyCustomer
InviteUsers == {"u2", "u3", "u4"}

\* The accounts of the requests that are served side by side: "u3", inactive
\* in "ent2" and unknown to "ent1", and "u4", unknown to both.
RacingUsers == {"u3", "u4"}
CourseRuns == {"c1", "c2"}

\* LicensedEnterpriseCourseEnrollment rows, in the order the table yields
\* them: learner "u1" of "ent1" holds license "L1" in courses c1..cMaxLicensed.
LicensedEnrollments ==
    [i \in 1..MaxLicensed |->
        [uuid |-> "lic-u1-c" \o ToString(i), kind |-> "licensed",
         customer |-> "ent1", user |-> "u1", course_id |-> "c" \o ToString(i),
         license_uuid |-> "L1"]]

\* LearnerCreditEnterpriseCourseEnrollment rows: learner "u2" of "ent1" and
\* learner "u3" of "ent2".
LearnerCreditEnrollments ==
    <<[uuid |-> "lc-u2-c1", kind |-> "learner_credit", customer |-> "ent1",
       user |-> "u2", course_id |-> "c1", license_uuid |-> None],
      [uuid |-> "lc-u3-c1", kind |-> "learner_credit", customer |-> "ent2",
       user |-> "u3", course_id |-> "c1", license_uuid |-> None]>>

Fulfillments ==
    {LicensedEnrollments[i] : i \in DOMAIN LicensedEnrollments}
    \cup {LearnerCreditEnrollments[i] : i \in DOMAIN LearnerCreditEnrollments}

FulfillmentUuids == {f.uuid : f \in Fulfillments}
FulfillmentByUuid(uuid) == CHOOSE f \in Fulfillments : f.uuid = uuid

\* License uuids a sweep may name: "L1", and "L2" that no enrollment carries.
LicenseUuids == {"L1", "L2"}

\* User.objects.filter(email=...).first(): the account of an email, or None.
AccountOf(email) ==
    IF \E u \in Accounts : UserEmail[u] = email
    THEN CHOOSE u \in Accounts : UserEmail[u] = email
    ELSE None

\* -------------------------------------------------------------------------
\* Sequence helpers
\* -------------------------------------------------------------------------
Range(s) == {s[i] : i \in DOMAIN s}

\* All orders in which a set can be iterated.
Orders(S) == {o \in [1..Cardinality(S) -> S] : Range(o) = S}

\* -------------------------------------------------------------------------
\* State
\* -------------------------------------------------------------------------
VARIABLES
    customer_users,          \* EnterpriseCustomerUser table: its rows in order of creation
    pending_customer_users,  \* PendingEnterpriseCustomerUser rows: <<customer, email>>
    pc,                      \* "idle": no request running; "done": a response is ready
    op,                      \* the handler that produced the response
    status,                  \* the response's HTTP status
    request,                 \* the request's input and what the collaborators did
    user_id_errors,          \* enroll_learners_in_courses: its local list
    email_errors,            \* enroll_learners_in_courses: its local list
    link_created,            \* links that link_user created during the request
    forwarded,               \* enrollments_info as passed to enroll_subsidy_users_in_courses
    results,                 \* what enroll_subsidy_users_in_courses returned
    is_revoked,              \* subsidy fulfillment uuid -> its is_revoked flag
    items,                   \* license_revoke / bulk expiration: one entry per enrollment visited
    calls,                   \* the enrollment_api.update_enrollment calls of the request
    data,                    \* the body of the response, None where the handler gives none
    outbound,                \* enroll_learners_in_courses: its mode lookups, tracking events and notifications
    threads                  \* requests served side by side: thread -> its position and locals

vars == <<customer_users, pending_customer_users, pc, op, status, request,
          user_id_errors, email_errors, link_created, forwarded, results,
          is_revoked, items, calls, data, outbound, threads>>

membership == <<customer_users, pending_customer_users>>
enroll_locals == <<user_id_errors, email_errors, link_created, forwarded, results, outbound>>
termination_locals == <<items, calls, data>>

NoResults == [successes |-> <<>>, pending |-> <<>>, failures |-> <<>>]

\* No get_best_mode_from_course_key, track_enrollment or
\* notify_enrolled_learners call yet.
NoOutbound == [mode_lookups |-> <<>>, tracked |-> <<>>, notified |-> <<>>]

\* One EnterpriseCustomerUser row as get_or_create makes it.
NewCustomerUser(customer, user_id) ==
    [customer |-> customer, user_id |-> user_id, active |-> TRUE, linked |-> TRUE,
     invite_key |-> None]

\* The rows of a (customer, user) pair; the table's unique constraint on the
\* pair is what the inserts of the model keep, not the representation.
CustomerUsersOf(table, customer, user_id) ==
    {i \in DOMAIN table : table[i].customer = customer /\ table[i].user_id = user_id}

HasCustomerUser(table, customer, user_id) ==
    CustomerUsersOf(table, customer, user_id) # {}

\* The requests that run side by side, and a thread that serves none.
Threads == {"t1", "t2"}
IdleThread ==
    [pc |-> "idle", kind |-> None, customer |-> None, user_id |-> None, key |-> None,
     created |-> FALSE, status |-> 0]

\* The membership tables before the first request.
CreatedCustomerUsers ==
    <<NewCustomerUser("ent1", "u1"), NewCustomerUser("ent1", "u2"),
      [NewCustomerUser("ent2", "u3") EXCEPT !.active = FALSE]>>

CreatedPendingCustomerUsers ==
    {<<"ent1", "e6">>}

Init ==
    /\ customer_users = CreatedCustomerUsers
    /\ pending_customer_users = CreatedPendingCustomerUsers
    /\ pc = "idle"
    /\ op = None
    /\ status = 0                       \* no response yet
    /\ request = [kind |-> None]
    /\ user_id_errors = <<>>
    /\ email_errors = <<>>
    /\ link_created = {}
    /\ forwarded = <<>>
    /\ results = NoResults
    /\ is_revoked = [u \in FulfillmentUuids |-> FALSE]
    /\ items = <<>>
    /\ calls = <<>>
    /\ data = None
    /\ outbound = NoOutbound
    /\ threads = [t \in Threads |-> IdleThread]

\* -------------------------------------------------------------------------
\* enroll_learners_in_courses
\* -------------------------------------------------------------------------
\* One entry of enrollments_info: a user email or a user_id, a course run
\* and the subsidy that pays for it (license_uuid; the handler passes it on
\* unread).  Entries addressed by email range over every license, entries
\* addressed by user_id are paid by the first one.
EnrollmentInfos ==
    [user_id : {None}, email : RequestEmails, course_run_key : CourseRuns,
     license_uuid : LicenseUuids, course_mode : {None}]
    \cup
    [user_id : RequestUserIds, email : {None}, course_run_key : CourseRuns,
     license_uuid : {"L1"}, course_mode : {None}]

Batches == UNION {[1..n -> EnrollmentInfos] : n \in 1..MaxBatch}

\* get_best_mode_from_course_key: a lookup of the course's modes; the first
\* course run has a verified mode, the others only audit.
get_best_mode_from_course_key(course_run) ==
    IF course_run = "c1" THEN "verified" ELSE "audit"

\* Faulty variant of the keys of course_runs_modes: one key per request.
course_run_keys_per_request(infos) ==
    [i \in DOMAIN infos |-> infos[i].course_run_key]

\* The keys of the dict course_runs_modes in the order the loop over it
\* yields them: every course run of the request once, by first appearance.
course_run_keys(infos) ==
    LET first == SelectSeq([i \in DOMAIN infos |-> i],
                    LAMBDA i : \A j \in 1..(i - 1) :
                        infos[j].course_run_key # infos[i].course_run_key)
    IN  [k \in DOMAIN first |-> infos[first[k]].course_run_key]

\* course_runs_modes after its loop: one lookup per key.
course_runs_modes(keys) ==
    [course_run \in Range(keys) |-> get_best_mode_from_course_key(course_run)]

\* The body of the loop over enrollments_info: the entry as the loop leaves it.
resolve_info(info, modes) ==
    LET with_email ==
            IF info.user_id # None /\ info.user_id \in Accounts
            THEN [info EXCEPT !.email = UserEmail[info.user_id]]
            ELSE info
    IN  [with_email EXCEPT !.course_mode = modes[info.course_run_key]]

resolve_infos(infos, modes) == [i \in DOMAIN infos |-> resolve_info(infos[i], modes)]

\* user_id_errors after the loop: the ids that resolve to no account, in order.
collect_user_id_errors(infos) ==
    LET bad == SelectSeq(infos,
                  LAMBDA info : info.user_id # None /\ info.user_id \notin Accounts)
    IN  [i \in DOMAIN bad |-> bad[i].user_id]

\* emails after the loop: the resolved email of every entry that has one.
collect_emails(infos) ==
    {infos[i].email : i \in DOMAIN infos} \ {None}

\* email_errors after the two loops over emails: the emails validation
\* rejected, then the emails link_user rejected; both loops run over the
\* whole set, in the set's iteration order.
collect_email_errors(order, validate_raised, link_raised) ==
    SelectSeq(order, LAMBDA e : e \in validate_raised)
    \o SelectSeq(order, LAMBDA e : e \in link_raised)

\* EnterpriseCustomerUser.all_objects.link_user on success: create-or-fetch
\* the Customer User of the email's account and leave it active and linked,
\* or create-or-fetch the Pending Customer User of an email without account.
link_user(tables, customer, email) ==
    IF AccountOf(email) # None
    THEN IF HasCustomerUser(tables.cu, customer, AccountOf(email))
         THEN [tables EXCEPT !.cu =
                  [i \in DOMAIN @ |->
                      IF i \in CustomerUsersOf(@, customer, AccountOf(email))
                      THEN [@[i] EXCEPT !.active = TRUE, !.linked = TRUE]
                      ELSE @[i]]]
         ELSE [tables EXCEPT !.cu = Append(@, NewCustomerUser(customer, AccountOf(email)))]
    ELSE [tables EXCEPT !.pcu = @ \cup {<<customer, email>>}]

RECURSIVE link_each(_, _, _, _)
link_each(tables, customer, order, link_raised) ==
    IF order = <<>> THEN tables
    ELSE link_each(IF Head(order) \in link_raised
                   THEN tables
                   ELSE link_user(tables, customer, Head(order)),
                   customer, Tail(order), link_raised)

\* Faulty variant of the link loop: the loop inside one transaction that a
\* LinkUserToEnterpriseError rolls back.
link_emails_atomic(tables, customer, order, link_raised) ==
    IF Range(order) \cap link_raised # {}
    THEN tables
    ELSE link_each(tables, customer, order, link_raised)

\* The second loop over emails: each email is linked on its own and a
\* LinkUserToEnterpriseError is caught per email; nothing wraps the loop.
link_emails(tables, customer, order, link_raised) ==
    link_each(tables, customer, order, link_raised)

\* Faulty variant of the filter: only the bad emails are dropped.
filter_enrollments_info_emails_only(infos, e_errors, u_errors) ==
    SelectSeq(infos, LAMBDA info : info.email \notin Range(e_errors))

\* Faulty variant of the filter: of the requests for one (email, course run)
\* only the first is kept.
filter_enrollments_info_one_per_course(infos, e_errors, u_errors) ==
    LET keep(i) ==
            /\ infos[i].email \notin Range(e_errors)
            /\ infos[i].user_id \notin Range(u_errors)
            /\ \A j \in 1..(i - 1) :
                  \/ infos[j].email # infos[i].email
                  \/ infos[j].course_run_key # infos[i].course_run_key
        idx == SelectSeq([i \in DOMAIN infos |-> i], keep)
    IN  [k \in DOMAIN idx |-> infos[idx[k]]]

\* The list comprehension that drops the bad emails and bad user ids.
filter_enrollments_info(infos, e_errors, u_errors) ==
    SelectSeq(infos,
        LAMBDA info : /\ info.email \notin Range(e_errors)
                      /\ info.user_id \notin Range(u_errors))

\* What the enrollment collaborator can make of one request: a success or a
\* pending enrollment, newly created or there already, or a failure.
Outcomes ==
    [kind : {"successes", "pending"}, created : BOOLEAN]
    \cup [kind : {"failures"}, created : {FALSE}]

\* The link sent to a learner whose license still needs activation.
activation_link(email) == "activate/" \o email

\* enroll_subsidy_users_in_courses: every request it is given ends in exactly
\* one of successes, pending and failures, carrying its email and course run;
\* a success or pending item also carries the created flag, the user object
\* (here: the email that names it) and, when pending, the activation link.
enroll_subsidy_users_in_courses(infos, class) ==
    LET item(i) ==
            IF class[i].kind = "failures"
            THEN [email |-> infos[i].email,
                  course_run_key |-> infos[i].course_run_key]
            ELSE [email |-> infos[i].email,
                  course_run_key |-> infos[i].course_run_key,
                  created |-> class[i].created,
                  user |-> infos[i].email,
                  activation_link |-> IF class[i].kind = "pending"
                                      THEN activation_link(infos[i].email) ELSE None]
        pick(kind) ==
            LET idx == SelectSeq([i \in DOMAIN infos |-> i],
                                 LAMBDA i : class[i].kind = kind)
            IN  [k \in DOMAIN idx |-> item(idx[k])]
    IN  [successes |-> pick("successes"),
         pending |-> pick("pending"),
         failures |-> pick("failures")]

\* activation_links: email -> link, of the results that carry a link.
collect_activation_links(res) ==
    LET linked == {r \in Range(res.successes) \cup Range(res.pending) :
                      r.activation_link # None}
    IN  [email \in {r.email : r \in linked} |->
            (CHOOSE r \in linked : r.email = email).activation_link]

\* pending_users | existing_users of one course run: the user objects of its
\* newly created results.
created_users(res, course_run) ==
    {r.user : r \in {r \in Range(res.pending) \cup Range(res.successes) :
                        r.course_run_key = course_run /\ r.created}}

\* Faulty variant of the loop over course_runs_modes: one notification per
\* newly created learner.
announce_per_learner(res, keys, notify, lookups) ==
    LET tracked == SelectSeq(keys, LAMBDA c : created_users(res, c) # {})
        created == SelectSeq(res.pending \o res.successes, LAMBDA r : r.created)
    IN  [mode_lookups |-> lookups,
         tracked |-> tracked,
         notified |->
            IF notify
            THEN [k \in DOMAIN created |->
                    [course_id |-> created[k].course_run_key,
                     users |-> {created[k].user},
                     admin_enrollment |-> TRUE,
                     activation_links |-> collect_activation_links(res)]]
            ELSE <<>>]

\* The loop over course_runs_modes: track_enrollment for every course run
\* with a newly created result and, with notify, notify_enrolled_learners.
announce(res, keys, notify, lookups) ==
    LET tracked == SelectSeq(keys, LAMBDA c : created_users(res, c) # {})
    IN  [mode_lookups |-> lookups,
         tracked |-> tracked,
         notified |->
            IF notify
            THEN [k \in DOMAIN tracked |->
                    [course_id |-> tracked[k],
                     users |-> created_users(res, tracked[k]),
                     admin_enrollment |-> TRUE,
                     activation_links |-> collect_activation_links(res)]]
            ELSE <<>>]

\* result.pop('user').
pop_user(result) ==
    [key \in DOMAIN result \ {"user"} |-> result[key]]

\* Faulty variant of the two pops: only the pop of the loop over
\* course_runs_modes, which takes the user of the newly created results.
strip_users_created_only(res) ==
    LET strip(list) ==
            [i \in DOMAIN list |->
                IF list[i].created THEN pop_user(list[i]) ELSE list[i]]
    IN  [successes |-> strip(res.successes), pending |-> strip(res.pending),
         failures |-> res.failures]

\* results after the loop over course_runs_modes and the two loops that
\* follow it: no success or pending item holds its user object any more.
strip_users(res) ==
    LET strip(list) == [i \in DOMAIN list |-> pop_user(list[i])]
    IN  [successes |-> strip(res.successes), pending |-> strip(res.pending),
         failures |-> res.failures]

\* The body of the answer: results, with the two error lists under their
\* keys when they are not empty.
response_body(res, e_errors, u_errors) ==
    LET with_ids ==
            IF u_errors # <<>>
            THEN ("invalid_user_ids" :> u_errors) @@ strip_users(res)
            ELSE strip_users(res)
    IN  IF e_errors # <<>>
        THEN ("invalid_email_addresses" :> e_errors) @@ with_ids
        ELSE with_ids

\* Faulty variants of the final returns: the pending check placed before the
\* conflict check; the pending check left out; 201 and 202 exchanged.
enroll_status_pending_first(res, e_errors, u_errors) ==
    IF res.pending # <<>>
    THEN HTTP_202_ACCEPTED
    ELSE IF res.failures # <<>> \/ e_errors # <<>> \/ u_errors # <<>>
    THEN HTTP_409_CONFLICT
    ELSE HTTP_201_CREATED

enroll_status_without_pending(res, e_errors, u_errors) ==
    IF res.failures # <<>> \/ e_errors # <<>> \/ u_errors # <<>>
    THEN HTTP_409_CONFLICT
    ELSE HTTP_201_CREATED

enroll_status_exchanged(res, e_errors, u_errors) ==
    IF res.failures # <<>> \/ e_errors # <<>> \/ u_errors # <<>>
    THEN HTTP_409_CONFLICT
    ELSE IF res.pending # <<>>
    THEN HTTP_201_CREATED
    ELSE HTTP_202_ACCEPTED

\* The final three returns.
enroll_status(res, e_errors, u_errors) ==
    IF res.failures # <<>> \/ e_errors # <<>> \/ u_errors # <<>>
    THEN HTTP_409_CONFLICT
    ELSE IF res.pending # <<>>
    THEN HTTP_202_ACCEPTED
    ELSE HTTP_201_CREATED

\* The body of the 400 answer: serializer.errors.
SERIALIZER_ERRORS == "serializer.errors"

enroll_invalid ==
    /\ pc = "idle"
    /\ \E infos \in Batches :
        /\ request' = [kind |-> "enroll", valid |-> FALSE, enrollments_info |-> infos]
    /\ pc' = "done"
    /\ op' = "enroll_learners_in_courses"
    /\ status' = HTTP_400_BAD_REQUEST
    /\ data' = SERIALIZER_ERRORS
    /\ UNCHANGED <<membership, enroll_locals, is_revoked, items, calls, threads>>

enroll_valid ==
    /\ pc = "idle"
    /\ \E infos \in Batches, notify \in BOOLEAN :
       LET keys == course_run_keys(infos)
           resolved == resolve_infos(infos, course_runs_modes(keys))
           emails == collect_emails(resolved)
           u_errors == collect_user_id_errors(infos)
       IN  \E order \in Orders(emails), validate_raised \in SUBSET emails,
              link_raised \in SUBSET emails :
           LET e_errors == collect_email_errors(order, validate_raised, link_raised)
               tables == link_emails([cu |-> customer_users,
                                      pcu |-> pending_customer_users],
                                     EnrollCustomer, order, link_raised)
               kept == filter_enrollments_info(resolved, e_errors, u_errors)
           IN  \E class \in [DOMAIN kept -> Outcomes] :
               LET res == enroll_subsidy_users_in_courses(kept, class)
               IN  /\ request' = [kind |-> "enroll", valid |-> TRUE,
                                  enrollments_info |-> infos,
                                  notify |-> notify,
                                  emails |-> emails,
                                  validate_raised |-> validate_raised,
                                  link_raised |-> link_raised]
                   /\ customer_users' = tables.cu
                   /\ pending_customer_users' = tables.pcu
                   /\ link_created' =
                        {<<tables.cu[i].customer, tables.cu[i].user_id>> :
                            i \in DOMAIN tables.cu \ DOMAIN customer_users}
                        \cup (tables.pcu \ pending_customer_users)
                   /\ user_id_errors' = u_errors
                   /\ email_errors' = e_errors
                   /\ forwarded' = kept
                   /\ results' = res
                   /\ outbound' = announce(res, keys, notify, keys)
                   /\ data' = response_body(res, e_errors, u_errors)
                   /\ status' = enroll_status(res, e_errors, u_errors)
    /\ pc' = "done"
    /\ op' = "enroll_learners_in_courses"
    /\ UNCHANGED <<is_revoked, items, calls, threads>>

enroll_learners_in_courses == enroll_invalid \/ enroll_valid

\* -------------------------------------------------------------------------
\* unlink_users
\* -------------------------------------------------------------------------
DoesNotExist == "DoesNotExist"
UnlinkUserFromEnterpriseError == "UnlinkUserFromEnterpriseError"

\* EnterpriseCustomerUser.objects.unlink_user: the linked Customer User of
\* the email's account is made inactive and unlinked, the Pending Customer
\* User of an email without account is deleted; DoesNotExist without one.
unlink_user(tables, customer, email) ==
    LET user_id == AccountOf(email)
        linked == IF user_id = None THEN {}
                  ELSE {i \in CustomerUsersOf(tables.cu, customer, user_id) :
                            tables.cu[i].linked}
    IN  IF user_id # None
        THEN IF linked = {}
             THEN [tables |-> tables, error |-> DoesNotExist]
             ELSE [tables |-> [tables EXCEPT !.cu =
                                 [i \in DOMAIN @ |->
                                     IF i \in linked
                                     THEN [@[i] EXCEPT !.active = FALSE, !.linked = FALSE]
                                     ELSE @[i]]],
                   error |-> None]
        ELSE IF <<customer, email>> \notin tables.pcu
             THEN [tables |-> tables, error |-> DoesNotExist]
             ELSE [tables |-> [tables EXCEPT !.pcu = @ \ {<<customer, email>>}],
                   error |-> None]

\* The loop over emails_to_unlink: DoesNotExist is logged and the loop goes
\* on; any other exception of unlink_user ends it with
\* UnlinkUserFromEnterpriseError.  done lists the emails unlinked so far,
\* missing the emails that met DoesNotExist.
RECURSIVE unlink_each(_, _, _, _, _, _)
unlink_each(tables, customer, emails, raised, done, missing) ==
    IF emails = <<>>
    THEN [tables |-> tables, error |-> None, done |-> done, missing |-> missing]
    ELSE IF Head(emails) \in raised
    THEN [tables |-> tables, error |-> UnlinkUserFromEnterpriseError, done |-> done,
          missing |-> missing]
    ELSE LET r == unlink_user(tables, customer, Head(emails))
         IN  unlink_each(r.tables, customer, Tail(emails), raised,
                         IF r.error = None THEN Append(done, Head(emails)) ELSE done,
                         IF r.error = None THEN missing ELSE Append(missing, Head(emails)))

\* Faulty variant of the transaction: the writes made before the exception
\* stay.
unlink_emails_without_transaction(tables, customer, emails, raised) ==
    unlink_each(tables, customer, emails, raised, <<>>, <<>>)

\* with transaction.atomic(): an exception that leaves the block undoes the
\* writes of the block.
unlink_emails(tables, customer, emails, raised) ==
    LET r == unlink_each(tables, customer, emails, raised, <<>>, <<>>)
    IN  IF r.error # None THEN [r EXCEPT !.tables = tables] ELSE r

UnlinkBatches == UNION {[1..n -> UnlinkEmails] : n \in 1..MaxBatch}

unlink_users ==
    /\ pc = "idle"
    /\ \E valid \in BOOLEAN :
       IF ~valid
       THEN /\ request' = [kind |-> "unlink_users", valid |-> FALSE]
            /\ status' = HTTP_400_BAD_REQUEST
            /\ UNCHANGED membership
       ELSE \E emails \in UnlinkBatches, is_relinkable \in BOOLEAN :
            \E raised \in SUBSET Range(emails) :
            LET r == unlink_emails([cu |-> customer_users, pcu |-> pending_customer_users],
                                   EnrollCustomer, emails, raised)
            IN  /\ request' = [kind |-> "unlink_users", valid |-> TRUE,
                               user_emails |-> emails, is_relinkable |-> is_relinkable,
                               unlink_raised |-> raised, exception |-> r.error,
                               unlinked |-> r.done, not_found |-> r.missing]
                /\ customer_users' = r.tables.cu
                /\ pending_customer_users' = r.tables.pcu
                /\ status' = IF r.error # None
                             THEN HTTP_500_INTERNAL_SERVER_ERROR ELSE HTTP_200_OK
    /\ pc' = "done"
    /\ op' = "unlink_users"
    /\ UNCHANGED <<enroll_locals, is_revoked, termination_locals, threads>>

\* -------------------------------------------------------------------------
\* EnterpriseCustomerInviteKeyViewSet.link_user
\* -------------------------------------------------------------------------
\* all_objects.get_or_create: the row of the pair, made if there is none.
get_or_create(table, customer, user_id) ==
    IF HasCustomerUser(table, customer, user_id)
    THEN [table |-> table, created |-> FALSE,
          row |-> CHOOSE i \in CustomerUsersOf(table, customer, user_id) : TRUE]
    ELSE [table |-> Append(table, NewCustomerUser(customer, user_id)),
          created |-> TRUE, row |-> Len(table) + 1]

\* Faulty variant of the handler after the key checks: the invite key is
\* written on every answer.
invite_key_redeemed_always_rewrites(table, customer, key, user_id, link_raises) ==
    LET g == get_or_create(table, customer, user_id)
        row == g.table[g.row]
        set_key(t) == [t EXCEPT ![g.row].invite_key = key]
    IN  IF g.created
        THEN [table |-> set_key(g.table), created |-> TRUE, status |-> HTTP_201_CREATED]
        ELSE IF ~row.active \/ ~row.linked
        THEN IF link_raises
             THEN [table |-> g.table, created |-> FALSE,
                   status |-> HTTP_422_UNPROCESSABLE_ENTITY]
             ELSE [table |-> set_key(link_user([cu |-> g.table, pcu |-> {}], customer,
                                               UserEmail[user_id]).cu),
                   created |-> FALSE, status |-> HTTP_200_OK]
        ELSE [table |-> set_key(g.table), created |-> FALSE, status |-> HTTP_200_OK]

\* The handler after the key checks: get_or_create, then the three branches.
invite_key_redeemed(table, customer, key, user_id, link_raises) ==
    LET g == get_or_create(table, customer, user_id)
        row == g.table[g.row]
        set_key(t) == [t EXCEPT ![g.row].invite_key = key]
    IN  IF g.created
        THEN [table |-> set_key(g.table), created |-> TRUE, status |-> HTTP_201_CREATED]
        ELSE IF ~row.active \/ ~row.linked
        THEN IF link_raises
             THEN [table |-> g.table, created |-> FALSE,
                   status |-> HTTP_422_UNPROCESSABLE_ENTITY]
             ELSE [table |-> set_key(link_user([cu |-> g.table, pcu |-> {}], customer,
                                               UserEmail[user_id]).cu),
                   created |-> FALSE, status |-> HTTP_200_OK]
        ELSE [table |-> g.table, created |-> FALSE, status |-> HTTP_200_OK]

invite_key_link_user ==
    /\ pc = "idle"
    /\ \E pk \in InviteKeys \cup {"unknown"}, user_id \in InviteUsers,
          is_valid \in BOOLEAN, link_raises \in BOOLEAN :
       LET req == [kind |-> "link_user", pk |-> pk, user_id |-> user_id,
                   is_valid |-> is_valid, link_raises |-> link_raises,
                   created |-> FALSE]
       IN  IF pk \notin InviteKeys
           THEN /\ request' = req
                /\ status' = HTTP_404_NOT_FOUND
                /\ UNCHANGED customer_users
           ELSE IF ~is_valid
           THEN /\ request' = req
                /\ status' = HTTP_422_UNPROCESSABLE_ENTITY
                /\ UNCHANGED customer_users
           ELSE LET r == invite_key_redeemed(customer_users, InviteKeyCustomer[pk], pk,
                                             user_id, link_raises)
                IN  /\ request' = [req EXCEPT !.created = r.created]
                    /\ status' = r.status
                    /\ customer_users' = r.table
    /\ pc' = "done"
    /\ op' = "link_user"
    /\ UNCHANGED <<pending_customer_users, enroll_locals, is_revoked, termination_locals, threads>>

\* -------------------------------------------------------------------------
\* The create-or-fetch of a Customer User, step by step, for requests served
\* side by side: EnterpriseCustomerInviteKeyViewSet.link_user, and the
\* link_user call of enroll_learners_in_courses for an email with an account
\* -------------------------------------------------------------------------
\* Faulty variant of the insert: no unique constraint on the pair.
insert_customer_user_unconstrained(table, customer, user_id) ==
    [table |-> Append(table, NewCustomerUser(customer, user_id)), created |-> TRUE]

\* The insert of get_or_create after its lookup found nothing: the unique
\* constraint on (customer, user) rejects it when the row exists by now, and
\* get_or_create fetches that row instead.
insert_customer_user(table, customer, user_id) ==
    IF HasCustomerUser(table, customer, user_id)
    THEN [table |-> table, created |-> FALSE]
    ELSE [table |-> Append(table, NewCustomerUser(customer, user_id)), created |-> TRUE]

\* The request arrives: the key lookup and the validity check of the
\* invite-key handler; the email of the bulk-enrollment request.
link_begin(t) ==
    /\ threads[t].pc = "idle"
    /\ \E kind \in {"invite", "enroll"}, user_id \in RacingUsers,
          pk \in InviteKeys \cup {"unknown"}, is_valid \in BOOLEAN :
       LET thread == [IdleThread EXCEPT !.kind = kind, !.user_id = user_id]
       IN  threads' = [threads EXCEPT ![t] =
              IF kind = "enroll"
              THEN [thread EXCEPT !.pc = "get", !.customer = EnrollCustomer]
              ELSE IF pk \notin InviteKeys
              THEN [thread EXCEPT !.pc = "done", !.status = HTTP_404_NOT_FOUND]
              ELSE IF ~is_valid
              THEN [thread EXCEPT !.pc = "done", !.key = pk,
                                  !.status = HTTP_422_UNPROCESSABLE_ENTITY]
              ELSE [thread EXCEPT !.pc = "get", !.key = pk,
                                  !.customer = InviteKeyCustomer[pk]]]
    /\ UNCHANGED <<membership, pc, op, status, request, enroll_locals, is_revoked,
                   termination_locals>>

\* get_or_create, the lookup.
link_get(t) ==
    /\ threads[t].pc = "get"
    /\ threads' = [threads EXCEPT ![t].pc =
          IF HasCustomerUser(customer_users, threads[t].customer, threads[t].user_id)
          THEN "fetched" ELSE "create"]
    /\ UNCHANGED <<membership, pc, op, status, request, enroll_locals, is_revoked,
                   termination_locals>>

\* get_or_create, the insert.
link_create(t) ==
    /\ threads[t].pc = "create"
    /\ LET r == insert_customer_user(customer_users, threads[t].customer,
                                     threads[t].user_id)
       IN  /\ customer_users' = r.table
           /\ threads' = [threads EXCEPT ![t].pc = "fetched", ![t].created = r.created]
    /\ UNCHANGED <<pending_customer_users, pc, op, status, request, enroll_locals,
                   is_revoked, termination_locals>>

\* After get_or_create: the invite key is written on the row that was made
\* (201); a row that is inactive or unlinked is linked again, unless
\* link_user raises (422), and gets the key (200); link_user of the
\* bulk-enrollment request leaves the row active and linked.
link_finish(t) ==
    /\ threads[t].pc = "fetched"
    /\ \E link_raises \in BOOLEAN :
       LET th == threads[t]
           rows == CustomerUsersOf(customer_users, th.customer, th.user_id)
           stale == \E i \in rows : ~customer_users[i].active \/ ~customer_users[i].linked
           relinked == link_user([cu |-> customer_users, pcu |-> {}], th.customer,
                                 UserEmail[th.user_id]).cu
           set_key(table) == [i \in DOMAIN table |->
                                IF i \in rows THEN [table[i] EXCEPT !.invite_key = th.key]
                                ELSE table[i]]
       IN  IF th.kind = "enroll"
           THEN /\ customer_users' = relinked
                /\ threads' = [threads EXCEPT ![t].pc = "done"]
           ELSE IF th.created
           THEN /\ customer_users' = set_key(customer_users)
                /\ threads' = [threads EXCEPT ![t].pc = "done",
                                              ![t].status = HTTP_201_CREATED]
           ELSE IF stale
           THEN IF link_raises
                THEN /\ UNCHANGED customer_users
                     /\ threads' = [threads EXCEPT ![t].pc = "done",
                                        ![t].status = HTTP_422_UNPROCESSABLE_ENTITY]
                ELSE /\ customer_users' = set_key(relinked)
                     /\ threads' = [threads EXCEPT ![t].pc = "done",
                                                   ![t].status = HTTP_200_OK]
           ELSE /\ UNCHANGED customer_users
                /\ threads' = [threads EXCEPT ![t].pc = "done", ![t].status = HTTP_200_OK]
    /\ UNCHANGED <<pending_customer_users, pc, op, status, request, enroll_locals,
                   is_revoked, termination_locals>>

\* The answer leaves the server.
link_end(t) ==
    /\ threads[t].pc = "done"
    /\ threads' = [threads EXCEPT ![t] = IdleThread]
    /\ UNCHANGED <<membership, pc, op, status, request, enroll_locals, is_revoked,
                   termination_locals>>

\* -------------------------------------------------------------------------
\* _terminate_enrollment and its two callers
\* -------------------------------------------------------------------------
\* EnrollmentTerminationStatus, and the exception _terminate_enrollment raises.
COURSE_COMPLETED == "course already completed"
MOVED_TO_AUDIT == "moved to audit"
UNENROLLED == "unenrolled"
EnrollmentModificationException == "EnrollmentModificationException"

\* What the platform answers while one enrollment is terminated:
\*   completed: _has_user_completed_course_run (certificate or ended run),
\*   has_audit: CourseMode.mode_for_course(course_run_id, audit),
\*   raises:    enrollment_api.update_enrollment raises.
Platform == [completed : BOOLEAN, has_audit : BOOLEAN, raises : BOOLEAN]

\* One enrollment_api.update_enrollment call.
AuditCall(f) ==
    [username |-> f.user, course_id |-> f.course_id, mode |-> "audit", is_active |-> None]
DeactivateCall(f) ==
    [username |-> f.user, course_id |-> f.course_id, mode |-> None, is_active |-> FALSE]

\* Faulty variants of _terminate_enrollment: the two update_enrollment calls
\* exchanged; the audit-mode check placed before the completion check.
terminate_enrollment_calls_exchanged(f, platform) ==
    IF platform.completed
    THEN [outcome |-> COURSE_COMPLETED, calls |-> <<>>]
    ELSE IF platform.has_audit
    THEN [outcome |-> IF platform.raises
                      THEN EnrollmentModificationException ELSE MOVED_TO_AUDIT,
          calls |-> <<DeactivateCall(f)>>]
    ELSE [outcome |-> IF platform.raises
                      THEN EnrollmentModificationException ELSE UNENROLLED,
          calls |-> <<AuditCall(f)>>]

terminate_enrollment_audit_first(f, platform) ==
    IF platform.has_audit
    THEN [outcome |-> IF platform.raises
                      THEN EnrollmentModificationException ELSE MOVED_TO_AUDIT,
          calls |-> <<AuditCall(f)>>]
    ELSE IF platform.completed
    THEN [outcome |-> COURSE_COMPLETED, calls |-> <<>>]
    ELSE [outcome |-> IF platform.raises
                      THEN EnrollmentModificationException ELSE UNENROLLED,
          calls |-> <<DeactivateCall(f)>>]

\* Faulty variant of _terminate_enrollment: the except clauses log the
\* failure of update_enrollment and the status is returned all the same.
terminate_enrollment_swallowing(f, platform) ==
    IF platform.completed
    THEN [outcome |-> COURSE_COMPLETED, calls |-> <<>>]
    ELSE IF platform.has_audit
    THEN [outcome |-> MOVED_TO_AUDIT, calls |-> <<AuditCall(f)>>]
    ELSE [outcome |-> UNENROLLED, calls |-> <<DeactivateCall(f)>>]

\* _terminate_enrollment: outcome is the status it returns, or
\* EnrollmentModificationException when it raises; calls are the
\* update_enrollment calls it issued.
terminate_enrollment(f, platform) ==
    IF platform.completed
    THEN [outcome |-> COURSE_COMPLETED, calls |-> <<>>]
    ELSE IF platform.has_audit
    THEN [outcome |-> IF platform.raises
                      THEN EnrollmentModificationException ELSE MOVED_TO_AUDIT,
          calls |-> <<AuditCall(f)>>]
    ELSE [outcome |-> IF platform.raises
                      THEN EnrollmentModificationException ELSE UNENROLLED,
          calls |-> <<DeactivateCall(f)>>]

\* What the world holds for one licensed enrollment while a handler visits it:
\*   overview:    get_course_overviews returned an overview of its course,
\*   modified_at: the latest history_date of the learner's course enrollment
\*                (NoTime: CourseEnrollment.history has no entry for it),
\*   platform:    the answers of the platform, above.
\* A handler that does not get to read one of the three sees the idle value.
IdlePlatform == [completed |-> FALSE, has_audit |-> FALSE, raises |-> FALSE]
IdleWorld == [overview |-> TRUE, modified_at |-> NoTime, platform |-> IdlePlatform]

\* What the loops leave behind for an enrollment they visited.
Visited(f, world, outcome, issued, success, revoked) ==
    [uuid |-> f.uuid, world |-> world, platform |-> world.platform,
     outcome |-> outcome, calls |-> issued, success |-> success,
     revoke_called |-> revoked]

\* Outcomes of a visit other than those of _terminate_enrollment: the two
\* `continue` branches of the sweep, and the two exceptions no handler catches.
ALREADY_REVOKED == "already revoked"
MODIFIED_AFTER_CUTOFF == "modified past the cutoff"
KeyError == "KeyError"
AttributeError == "AttributeError"
Crashes == {KeyError, AttributeError}

\* Faulty variant of license_revoke's loop body: revoke() without the test of
\* the termination status.
license_revoke_item_always_revokes(f, world) ==
    LET t == terminate_enrollment(f, world.platform)
    IN  IF t.outcome = EnrollmentModificationException
        THEN Visited(f, world, t.outcome, t.calls, FALSE, FALSE)
        ELSE Visited(f, world, t.outcome, t.calls, TRUE, TRUE)

\* The body of license_revoke's loop: the try block and its except clause.
license_revoke_item(f, world) ==
    LET t == terminate_enrollment(f, world.platform)
    IN  IF t.outcome = EnrollmentModificationException
        THEN Visited(f, world, t.outcome, t.calls, FALSE, FALSE)
        ELSE Visited(f, world, t.outcome, t.calls, TRUE,
                     t.outcome # COURSE_COMPLETED)

\* Faulty variant of the sweep's loop body: an enrollment modified exactly at
\* the cutoff is not skipped.
bulk_expiration_item_strictly_after(f, revoked, cutoff, world) ==
    IF revoked
    THEN Visited(f, world, ALREADY_REVOKED, <<>>, TRUE, FALSE)
    ELSE IF cutoff # NoTime /\ world.modified_at = NoTime
    THEN Visited(f, world, KeyError, <<>>, FALSE, FALSE)
    ELSE IF cutoff # NoTime /\ world.modified_at > cutoff
    THEN Visited(f, world, MODIFIED_AFTER_CUTOFF, <<>>, TRUE, FALSE)
    ELSE IF ~world.overview
    THEN Visited(f, world, AttributeError, <<>>, FALSE, FALSE)
    ELSE LET t == terminate_enrollment(f, world.platform)
         IN  IF t.outcome = EnrollmentModificationException
             THEN Visited(f, world, t.outcome, t.calls, FALSE, FALSE)
             ELSE Visited(f, world, t.outcome, t.calls, TRUE,
                          t.outcome # COURSE_COMPLETED)

\* The body of bulk_licensed_enrollments_expiration's loop.  cutoff is
\* ignore_enrollments_modified_after (NoTime: not given).  The lookup of the
\* modification time raises KeyError for a pair without history, and
\* _terminate_enrollment raises AttributeError on course_overview = None.
bulk_expiration_item(f, revoked, cutoff, world) ==
    IF revoked
    THEN Visited(f, world, ALREADY_REVOKED, <<>>, TRUE, FALSE)
    ELSE IF cutoff # NoTime /\ world.modified_at = NoTime
    THEN Visited(f, world, KeyError, <<>>, FALSE, FALSE)
    ELSE IF cutoff # NoTime /\ world.modified_at >= cutoff
    THEN Visited(f, world, MODIFIED_AFTER_CUTOFF, <<>>, TRUE, FALSE)
    ELSE IF ~world.overview
    THEN Visited(f, world, AttributeError, <<>>, FALSE, FALSE)
    ELSE LET t == terminate_enrollment(f, world.platform)
         IN  IF t.outcome = EnrollmentModificationException
             THEN Visited(f, world, t.outcome, t.calls, FALSE, FALSE)
             ELSE Visited(f, world, t.outcome, t.calls, TRUE,
                          t.outcome # COURSE_COMPLETED)

\* The worlds that differ in what the sweep reads of them for one enrollment.
SweepWorlds(revoked, cutoff) ==
    IF revoked THEN {IdleWorld}
    ELSE LET times == IF cutoff = NoTime THEN {NoTime} ELSE {NoTime} \cup 0..MaxTime
         IN  {w \in [overview : BOOLEAN, modified_at : times, platform : Platform] :
                \/ /\ cutoff # NoTime
                   /\ (w.modified_at = NoTime \/ w.modified_at >= cutoff)
                   /\ w.overview
                   /\ w.platform = IdlePlatform
                \/ /\ (cutoff = NoTime \/ (w.modified_at # NoTime /\ w.modified_at < cutoff))
                   /\ (w.overview \/ w.platform = IdlePlatform)}

\* Faulty variant of the sweep's loop: an EnrollmentModificationException
\* ends the loop as an uncaught exception does.
RECURSIVE sweep_runs_aborting(_, _, _, _)
sweep_runs_aborting(enrollments, flags, cutoff, k) ==
    IF k > Len(enrollments) THEN {<<>>}
    ELSE UNION {
            LET it == bulk_expiration_item(enrollments[k], flags[enrollments[k].uuid],
                                           cutoff, w)
            IN  IF it.outcome \in Crashes \cup {EnrollmentModificationException}
                THEN {<<it>>}
                ELSE {<<it>> \o rest :
                        rest \in sweep_runs_aborting(enrollments, flags, cutoff, k + 1)}
            : w \in SweepWorlds(flags[enrollments[k].uuid], cutoff)}

\* Every run of the sweep's loop over enrollments[k..]: the enrollments it
\* visited, ending with the one whose visit raised an uncaught exception.
RECURSIVE sweep_runs(_, _, _, _)
sweep_runs(enrollments, flags, cutoff, k) ==
    IF k > Len(enrollments) THEN {<<>>}
    ELSE UNION {
            LET it == bulk_expiration_item(enrollments[k], flags[enrollments[k].uuid],
                                           cutoff, w)
            IN  IF it.outcome \in Crashes
                THEN {<<it>>}
                ELSE {<<it>> \o rest :
                        rest \in sweep_runs(enrollments, flags, cutoff, k + 1)}
            : w \in SweepWorlds(flags[enrollments[k].uuid], cutoff)}

\* revoke() of every fulfillment the loop called it on.
revoke_visited(flags, visited) ==
    [u \in DOMAIN flags |->
        flags[u] \/ \E i \in DOMAIN visited :
                        visited[i].uuid = u /\ visited[i].revoke_called]

RECURSIVE Flatten(_)
Flatten(ss) == IF ss = <<>> THEN <<>> ELSE Head(ss) \o Flatten(Tail(ss))

all_calls(visited) == Flatten([i \in DOMAIN visited |-> visited[i].calls])

\* status_code of both loops; an exception that leaves the handler is
\* answered with 500.
revocation_status(visited) ==
    IF \E i \in DOMAIN visited : visited[i].outcome \in Crashes
    THEN HTTP_500_INTERNAL_SERVER_ERROR
    ELSE IF \E i \in DOMAIN visited : ~visited[i].success
    THEN HTTP_422_UNPROCESSABLE_ENTITY
    ELSE HTTP_200_OK

\* _enrollments_by_course_for_licensed_user: the licensed enrollments of one
\* Customer User, one per course.
enrollments_for_licensed_user(customer, user) ==
    SelectSeq(LicensedEnrollments,
              LAMBDA f : f.customer = customer /\ f.user = user)

\* Faulty variant of revocation_results: the except clause records nothing.
revocation_results_successes_only(visited) ==
    LET kept == SelectSeq(visited, LAMBDA it : it.success)
    IN  [course_id \in {FulfillmentByUuid(kept[i].uuid).course_id : i \in DOMAIN kept} |->
            LET it == kept[CHOOSE i \in DOMAIN kept :
                            FulfillmentByUuid(kept[i].uuid).course_id = course_id]
            IN  [success |-> it.success, message |-> it.outcome]]

\* revocation_results: course id -> success and message of its enrollment.
revocation_results(visited) ==
    [course_id \in {FulfillmentByUuid(visited[i].uuid).course_id : i \in DOMAIN visited} |->
        LET it == visited[CHOOSE i \in DOMAIN visited :
                            FulfillmentByUuid(visited[i].uuid).course_id = course_id]
        IN  [success |-> it.success, message |-> it.outcome]]

\* The answers of license_revoke before its loop carry no revocation_results.
license_revoke_respond(req, code, visited) ==
    /\ request' = req
    /\ status' = code
    /\ items' = visited
    /\ calls' = all_calls(visited)
    /\ is_revoked' = revoke_visited(is_revoked, visited)
    /\ data' = IF code \in {HTTP_400_BAD_REQUEST, HTTP_404_NOT_FOUND}
               THEN None ELSE revocation_results(visited)
    /\ pc' = "done"
    /\ op' = "license_revoke"
    /\ UNCHANGED <<membership, enroll_locals, threads>>

\* The loop of license_revoke runs over the overviews get_course_overviews
\* returned: an enrollment whose course has none is not visited.
license_revoke ==
    /\ pc = "idle"
    /\ \E user_id \in Accounts \cup {None}, enterprise_id \in Customers \cup {None} :
       LET req == [kind |-> "license_revoke", user_id |-> user_id,
                   enterprise_id |-> enterprise_id, overviews |-> {}]
       IN  IF user_id = None \/ enterprise_id = None
           THEN license_revoke_respond(req, HTTP_400_BAD_REQUEST, <<>>)
           ELSE IF ~HasCustomerUser(customer_users, enterprise_id, user_id)
           THEN license_revoke_respond(req, HTTP_404_NOT_FOUND, <<>>)
           ELSE LET enrollments == enrollments_for_licensed_user(enterprise_id, user_id)
                IN  \E overviews \in SUBSET {enrollments[i].course_id : i \in DOMAIN enrollments} :
                    LET seen == SelectSeq(enrollments, LAMBDA f : f.course_id \in overviews)
                    IN  \E platform \in [DOMAIN seen -> Platform] :
                        LET visited ==
                                [i \in DOMAIN seen |->
                                    license_revoke_item(
                                        seen[i], [IdleWorld EXCEPT !.platform = platform[i]])]
                        IN  license_revoke_respond([req EXCEPT !.overviews = overviews],
                                                   revocation_status(visited), visited)

bulk_expiration_respond(req, code, visited) ==
    /\ request' = req
    /\ status' = code
    /\ items' = visited
    /\ calls' = all_calls(visited)
    /\ is_revoked' = revoke_visited(is_revoked, visited)
    /\ data' = None                     \* Response(status=status_code)
    /\ pc' = "done"
    /\ op' = "bulk_licensed_enrollments_expiration"
    /\ UNCHANGED <<membership, enroll_locals, threads>>

\* ignore_enrollments_modified_after as the request gives it: not at all, as
\* a string parse_datetime cannot read, or as the instant CutoffTime.
CutoffParams == {"absent", "malformed", "valid"}

\* Faulty variant of the sweep: ignore_enrollments_modified_after is parsed
\* after the loop, which ran as if no cutoff had been given.
bulk_expiration_cutoff_parsed_late ==
    /\ pc = "idle"
    /\ \E expired_license_uuids \in SUBSET LicenseUuids, cutoff_param \in CutoffParams :
       LET req == [kind |-> "bulk_expiration",
                   expired_license_uuids |-> expired_license_uuids,
                   ignore_enrollments_modified_after |-> cutoff_param]
           cutoff == IF cutoff_param = "valid" THEN CutoffTime ELSE NoTime
       IN  IF expired_license_uuids = {}
           THEN bulk_expiration_respond(req, HTTP_400_BAD_REQUEST, <<>>)
           ELSE LET enrollments ==
                        SelectSeq(LicensedEnrollments,
                                  LAMBDA f : f.license_uuid \in expired_license_uuids)
                IN  \E visited \in sweep_runs(enrollments, is_revoked, cutoff, 1) :
                        bulk_expiration_respond(
                            req,
                            IF cutoff_param = "malformed"
                            THEN HTTP_400_BAD_REQUEST ELSE revocation_status(visited),
                            visited)

bulk_licensed_enrollments_expiration ==
    /\ pc = "idle"
    /\ \E expired_license_uuids \in SUBSET LicenseUuids, cutoff_param \in CutoffParams :
       LET req == [kind |-> "bulk_expiration",
                   expired_license_uuids |-> expired_license_uuids,
                   ignore_enrollments_modified_after |-> cutoff_param]
           cutoff == IF cutoff_param = "valid" THEN CutoffTime ELSE NoTime
       IN  IF expired_license_uuids = {}
           THEN bulk_expiration_respond(req, HTTP_400_BAD_REQUEST, <<>>)
           ELSE IF cutoff_param = "malformed"
           THEN bulk_expiration_respond(req, HTTP_400_BAD_REQUEST, <<>>)
           ELSE LET enrollments ==
                        SelectSeq(LicensedEnrollments,
                                  LAMBDA f : f.license_uuid \in expired_license_uuids)
                IN  \E visited \in sweep_runs(enrollments, is_revoked, cutoff, 1) :
                        bulk_expiration_respond(req, revocation_status(visited), visited)

\* -------------------------------------------------------------------------
\* _course_enrollment_modified_at_by_user_and_course_id, the helper of the
\* sweep, on its own
\* -------------------------------------------------------------------------
\* Numeric user ids and course ids as CourseEnrollment.history holds them; a
\* course id of the org/course/run form starts with its organisation.
HistoryUserIds == {1, 12}
HistoryCourseIds == {"2U/C/R", "U/C/R"}
HistoryPairs == [user_id : HistoryUserIds, course_id : HistoryCourseIds]

\* CourseEnrollment.history: at most MaxHistory entries.
HistoryEntries ==
    [user_id : HistoryUserIds, course_id : HistoryCourseIds, history_date : 0..MaxTime]
HistoryTables ==
    {table \in SUBSET HistoryEntries : Cardinality(table) <= MaxHistory}

\* f'{user_id}{course_id}'
history_key(user_id, course_id) == ToString(user_id) \o course_id

\* The dict the helper returns: the history entries of the users and of the
\* courses of the enrollments, newest first; a key takes the date of the
\* first entry that has it.
course_enrollment_modified_at_by_user_and_course_id(enrollments, table) ==
    LET user_ids == {e.user_id : e \in enrollments}
        course_ids == {e.course_id : e \in enrollments}
        histories == {h \in table : h.user_id \in user_ids /\ h.course_id \in course_ids}
        key(h) == history_key(h.user_id, h.course_id)
    IN  [k \in {key(h) : h \in histories} |->
            (CHOOSE h \in histories :
                /\ key(h) = k
                /\ \A other \in histories :
                      key(other) = k => other.history_date <= h.history_date).history_date]

\* The helper applied to the enrollments of a sweep and a history table.
modified_at_lookup ==
    /\ pc = "idle"
    /\ \E enrollments \in SUBSET HistoryPairs \ {{}}, table \in HistoryTables :
        /\ request' = [kind |-> "modified_at", enrollments |-> enrollments,
                       histories |-> table]
        /\ data' = course_enrollment_modified_at_by_user_and_course_id(enrollments, table)
    /\ pc' = "done"
    /\ op' = "_course_enrollment_modified_at_by_user_and_course_id"
    /\ status' = 0
    /\ UNCHANGED <<membership, enroll_locals, is_revoked, items, calls, threads>>

\* -------------------------------------------------------------------------
\* cancel_enrollment
\* -------------------------------------------------------------------------
\* The requesting user: the customer get_enterprise_customer_from_user_id
\* gives for it, and its is_staff flag.
Callers == [customer : Customers, is_staff : BOOLEAN]

\* The bodies of the answers that carry a message.
NOT_FOUND_DETAIL == "No enrollment found for the given fulfillment source uuid."
ALREADY_CANCELED_DETAIL == "Enrollment is already canceled."
TERMINATION_ERROR_MSG == "Subsidized enrollment terminations error: unable to unenroll"

\* Faulty variant of the queryset: the customer filter is never applied.
get_subsidy_fulfillment_queryset_unfiltered(caller, fulfillment_source_uuid) ==
    LET learner_credit == {f \in Range(LearnerCreditEnrollments) :
                             f.uuid = fulfillment_source_uuid}
        licensed == {f \in Range(LicensedEnrollments) :
                       f.uuid = fulfillment_source_uuid}
    IN  IF learner_credit # {} THEN learner_credit ELSE licensed

\* get_subsidy_fulfillment_queryset: the learner-credit rows with the uuid,
\* else the licensed rows with it, each narrowed to the caller's customer
\* unless the caller is staff; the empty set stands for its ValidationError.
get_subsidy_fulfillment_queryset(caller, fulfillment_source_uuid) ==
    LET visible(f) == caller.is_staff \/ f.customer = caller.customer
        learner_credit == {f \in Range(LearnerCreditEnrollments) :
                             f.uuid = fulfillment_source_uuid /\ visible(f)}
        licensed == {f \in Range(LicensedEnrollments) :
                       f.uuid = fulfillment_source_uuid /\ visible(f)}
    IN  IF learner_credit # {} THEN learner_credit ELSE licensed

\* retrieve: the serialized fulfillment of the queryset, or 404 on the
\* queryset's ValidationError; nothing is written.
retrieve ==
    /\ pc = "idle"
    /\ \E caller \in Callers, uuid \in FulfillmentUuids \cup {"unknown"} :
       LET queryset == get_subsidy_fulfillment_queryset(caller, uuid)
       IN  /\ request' = [kind |-> "retrieve", caller |-> caller,
                          fulfillment_source_uuid |-> uuid,
                          found |-> queryset # {}]
           /\ IF queryset = {}
              THEN /\ status' = HTTP_404_NOT_FOUND
                   /\ data' = NOT_FOUND_DETAIL
              ELSE /\ status' = HTTP_200_OK
                   /\ data' = (CHOOSE x \in queryset : TRUE).uuid
    /\ pc' = "done"
    /\ op' = "retrieve"
    /\ UNCHANGED <<membership, enroll_locals, is_revoked, items, calls, threads>>

\* Faulty variants of the handler after the lookup: revoke() placed before
\* the update_enrollment call; the is_revoked test left out.
cancel_found_revoke_first(f, revoked, raises) ==
    IF revoked
    THEN [status |-> HTTP_400_BAD_REQUEST, calls |-> <<>>, revoke_called |-> FALSE,
          data |-> ALREADY_CANCELED_DETAIL]
    ELSE IF raises
    THEN [status |-> HTTP_500_INTERNAL_SERVER_ERROR, calls |-> <<DeactivateCall(f)>>,
          revoke_called |-> TRUE, data |-> TERMINATION_ERROR_MSG]
    ELSE [status |-> HTTP_200_OK, calls |-> <<DeactivateCall(f)>>,
          revoke_called |-> TRUE, data |-> None]

cancel_found_without_guard(f, revoked, raises) ==
    IF raises
    THEN [status |-> HTTP_500_INTERNAL_SERVER_ERROR, calls |-> <<DeactivateCall(f)>>,
          revoke_called |-> FALSE, data |-> TERMINATION_ERROR_MSG]
    ELSE [status |-> HTTP_200_OK, calls |-> <<DeactivateCall(f)>>,
          revoke_called |-> TRUE, data |-> None]

\* Faulty variant of the handler after the lookup: the failure of
\* update_enrollment is logged and the answer is 200.
cancel_found_ok_on_error(f, revoked, raises) ==
    IF revoked
    THEN [status |-> HTTP_400_BAD_REQUEST, calls |-> <<>>, revoke_called |-> FALSE,
          data |-> ALREADY_CANCELED_DETAIL]
    ELSE [status |-> HTTP_200_OK, calls |-> <<DeactivateCall(f)>>,
          revoke_called |-> ~raises, data |-> None]

\* The handler after the lookup: the status, the update_enrollment calls and
\* whether revoke() ran.
cancel_found(f, revoked, raises) ==
    IF revoked
    THEN [status |-> HTTP_400_BAD_REQUEST, calls |-> <<>>, revoke_called |-> FALSE,
          data |-> ALREADY_CANCELED_DETAIL]
    ELSE IF raises
    THEN [status |-> HTTP_500_INTERNAL_SERVER_ERROR, calls |-> <<DeactivateCall(f)>>,
          revoke_called |-> FALSE, data |-> TERMINATION_ERROR_MSG]
    ELSE [status |-> HTTP_200_OK, calls |-> <<DeactivateCall(f)>>,
          revoke_called |-> TRUE, data |-> None]

\* LearnerCreditEnterpriseCourseEnrollment.revoke / LicensedEnterpriseCourseEnrollment.revoke
revoke(flags, uuid) == [flags EXCEPT ![uuid] = TRUE]

cancel_enrollment ==
    /\ pc = "idle"
    /\ \E caller \in Callers, uuid \in FulfillmentUuids \cup {"unknown"},
          completed \in BOOLEAN, raises \in BOOLEAN :
       LET queryset == get_subsidy_fulfillment_queryset(caller, uuid)
           req == [kind |-> "cancel_enrollment", caller |-> caller,
                   fulfillment_source_uuid |-> uuid,
                   found |-> queryset # {},
                   completed |-> completed, raises |-> raises]
       IN  /\ request' = req
           /\ IF queryset = {}
              THEN /\ status' = HTTP_404_NOT_FOUND
                   /\ data' = NOT_FOUND_DETAIL
                   /\ calls' = <<>>
                   /\ UNCHANGED is_revoked
              ELSE LET f == CHOOSE x \in queryset : TRUE
                       r == cancel_found(f, is_revoked[f.uuid], raises)
                   IN  /\ status' = r.status
                       /\ data' = r.data
                       /\ calls' = r.calls
                       /\ is_revoked' = IF r.revoke_called
                                        THEN revoke(is_revoked, f.uuid)
                                        ELSE is_revoked
    /\ pc' = "done"
    /\ op' = "cancel_enrollment"
    /\ UNCHANGED <<membership, enroll_locals, items, threads>>

\* -------------------------------------------------------------------------
\* cancel_enrollment and one visit of the expiration sweep's loop, step by
\* step, for requests served side by side.  Neither handler opens a
\* transaction or locks the row: between the read of is_revoked, the
\* update_enrollment call and revoke() another request can run.
\* -------------------------------------------------------------------------
\* The fulfillments the racing requests name: a licensed one, which both
\* handlers reach, and a learner-credit one.
RacedFulfillments == {"lic-u1-c1", "lc-u2-c1"}

\* 'if subsidy_fulfillment.is_revoked' / 'if licensed_enrollment.is_revoked':
\* the request goes on to the platform call when the flag it read is false.
passes_revoked_check(revoked) == ~revoked

\* The request arrives and finds its fulfillment.
terminate_begin(t) ==
    /\ threads[t].pc = "idle"
    /\ \E kind \in {"cancel", "sweep"}, uuid \in RacedFulfillments :
        /\ kind = "sweep" => FulfillmentByUuid(uuid).kind = "licensed"
        /\ threads' = [threads EXCEPT ![t] =
              [pc |-> "check", kind |-> kind, uuid |-> uuid, seen_revoked |-> FALSE,
               calls |-> <<>>, returned |-> FALSE, status |-> 0]]
    /\ UNCHANGED <<membership, pc, op, status, request, enroll_locals, is_revoked,
                   termination_locals>>

\* The test of is_revoked on the row the request read.
terminate_check(t) ==
    /\ threads[t].pc = "check"
    /\ LET thread == threads[t]
           revoked == is_revoked[thread.uuid]
       IN  threads' = [threads EXCEPT ![t] =
              IF passes_revoked_check(revoked)
              THEN [thread EXCEPT !.pc = "update", !.seen_revoked = revoked]
              ELSE [thread EXCEPT !.pc = "done", !.seen_revoked = revoked,
                                  !.status = IF thread.kind = "cancel"
                                             THEN HTTP_400_BAD_REQUEST
                                             ELSE HTTP_200_OK]]
    /\ UNCHANGED <<membership, pc, op, status, request, enroll_locals, is_revoked,
                   termination_locals>>

\* The platform call: update_enrollment(is_active=False) of cancel_enrollment,
\* _terminate_enrollment of the sweep.
terminate_update(t) ==
    /\ threads[t].pc = "update"
    /\ \E platform \in Platform :
       LET thread == threads[t]
           f == FulfillmentByUuid(thread.uuid)
           r == IF thread.kind = "cancel"
                THEN [outcome |-> IF platform.raises
                                  THEN EnrollmentModificationException ELSE UNENROLLED,
                      calls |-> <<DeactivateCall(f)>>]
                ELSE terminate_enrollment(f, platform)
       IN  threads' = [threads EXCEPT ![t] =
              IF r.outcome = EnrollmentModificationException
              THEN [thread EXCEPT !.pc = "done", !.calls = r.calls,
                                  !.status = IF thread.kind = "cancel"
                                             THEN HTTP_500_INTERNAL_SERVER_ERROR
                                             ELSE HTTP_422_UNPROCESSABLE_ENTITY]
              ELSE IF r.outcome = COURSE_COMPLETED
              THEN [thread EXCEPT !.pc = "done", !.status = HTTP_200_OK]
              ELSE [thread EXCEPT !.pc = "revoke", !.calls = r.calls,
                                  !.returned = TRUE]]
    /\ UNCHANGED <<membership, pc, op, status, request, enroll_locals, is_revoked,
                   termination_locals>>

\* revoke() after the call returned.
terminate_revoke(t) ==
    /\ threads[t].pc = "revoke"
    /\ is_revoked' = revoke(is_revoked, threads[t].uuid)
    /\ threads' = [threads EXCEPT ![t] =
          [threads[t] EXCEPT !.pc = "done", !.status = HTTP_200_OK]]
    /\ UNCHANGED <<membership, pc, op, status, request, enroll_locals,
                   termination_locals>>

\* The response leaves the server.
terminate_end(t) ==
    /\ threads[t].pc = "done"
    /\ "uuid" \in DOMAIN threads[t]
    /\ threads' = [threads EXCEPT ![t] = IdleThread]
    /\ UNCHANGED <<membership, pc, op, status, request, enroll_locals, is_revoked,
                   termination_locals>>

\* -------------------------------------------------------------------------
\* The response leaves the server; the handler's locals are gone.
\* -------------------------------------------------------------------------
Deliver ==
    /\ pc = "done"
    /\ pc' = "idle"
    /\ op' = None
    /\ status' = 0
    /\ request' = [kind |-> None]
    /\ user_id_errors' = <<>>
    /\ email_errors' = <<>>
    /\ link_created' = {}
    /\ forwarded' = <<>>
    /\ results' = NoResults
    /\ outbound' = NoOutbound
    /\ items' = <<>>
    /\ calls' = <<>>
    /\ data' = None
    /\ UNCHANGED <<membership, is_revoked, threads>>

\* The bulk-enrollment orchestrator on its own.
NextEnroll == enroll_learners_in_courses \/ Deliver

SpecEnroll == Init /\ [][NextEnroll]_vars

\* The subsidy-fulfillment lifecycle on its own.
NextTermination ==
    \/ license_revoke
    \/ bulk_licensed_enrollments_expiration
    \/ retrieve
    \/ cancel_enrollment
    \/ Deliver

SpecTermination == Init /\ [][NextTermination]_vars

\* The unlink batch on its own.
NextUnlink == unlink_users \/ Deliver

SpecUnlink == Init /\ [][NextUnlink]_vars

\* Invite-key redemption on its own, one request at a time.
NextInvite == invite_key_link_user \/ Deliver

SpecInvite == Init /\ [][NextInvite]_vars

\* The handlers fall into three families that write disjoint rows: enrolling
\* only adds memberships, unlinking only changes the memberships that were
\* there from the start, and the termination handlers only write is_revoked.
\* The specifications that put the families side by side run each family on
\* every database it produces itself, the rows of the other two as created.
NothingLinked ==
    /\ Len(customer_users) = Len(CreatedCustomerUsers)
    /\ pending_customer_users \subseteq CreatedPendingCustomerUsers

NothingUnlinked ==
    /\ Len(customer_users) >= Len(CreatedCustomerUsers)
    /\ SubSeq(customer_users, 1, Len(CreatedCustomerUsers)) = CreatedCustomerUsers
    /\ CreatedPendingCustomerUsers \subseteq pending_customer_users

NothingRevoked ==
    \A u \in FulfillmentUuids : ~is_revoked[u]

\* The five handlers that can meet a failure of one item.
NextErrors ==
    \/ NothingUnlinked /\ NothingRevoked /\ enroll_learners_in_courses
    \/ NothingLinked /\ NothingRevoked /\ unlink_users
    \/ NothingLinked /\ NothingUnlinked /\ license_revoke
    \/ NothingLinked /\ NothingUnlinked /\ bulk_licensed_enrollments_expiration
    \/ NothingLinked /\ NothingUnlinked /\ cancel_enrollment
    \/ Deliver

SpecErrors == Init /\ [][NextErrors]_vars

\* The handlers that create or end the enrollments a subsidy pays for.  The
\* bulk-enrollment handler neither reads nor writes is_revoked: it is run on
\* the fulfillments as created and the three termination handlers on every
\* database that follows.
NextSubsidies ==
    \/ NothingRevoked /\ enroll_learners_in_courses
    \/ license_revoke
    \/ bulk_licensed_enrollments_expiration
    \/ cancel_enrollment
    \/ Deliver

SpecSubsidies == Init /\ [][NextSubsidies]_vars

\* Terminations served side by side.
NextConcurrentTermination ==
    \E t \in Threads :
        \/ terminate_begin(t)
        \/ terminate_check(t)
        \/ terminate_update(t)
        \/ terminate_revoke(t)
        \/ terminate_end(t)

SpecConcurrentTermination == Init /\ [][NextConcurrentTermination]_vars

\* The modification-time helper of the sweep on its own.
NextHistory == modified_at_lookup \/ Deliver

SpecHistory == Init /\ [][NextHistory]_vars

\* Linking requests served side by side.
NextConcurrentLink ==
    \E t \in Threads :
        \/ link_begin(t)
        \/ link_get(t)
        \/ link_create(t)
        \/ link_finish(t)
        \/ link_end(t)

SpecConcurrentLink == Init /\ [][NextConcurrentLink]_vars

\* The three handlers that validate their input before they act.
NextValidation ==
    \/ NothingRevoked /\ enroll_learners_in_courses
    \/ NothingLinked /\ license_revoke
    \/ NothingLinked /\ bulk_licensed_enrollments_expiration
    \/ Deliver

SpecValidation == Init /\ [][NextValidation]_vars

Next ==
    \/ enroll_learners_in_courses
    \/ unlink_users
    \/ invite_key_link_user
    \/ license_revoke
    \/ bulk_licensed_enrollments_expiration
    \/ retrieve
    \/ cancel_enrollment
    \/ modified_at_lookup
    \/ Deliver

Spec == Init /\ [][Next]_vars

\* =========================================================================
\* Properties of enroll_learners_in_courses (checked under SpecEnroll)
\* =========================================================================
\* A bulk-enrollment request that passed serializer validation has answered.
EnrollDone ==
    pc = "done" /\ op = "enroll_learners_in_courses" /\ request.valid

\* The user ids of the request that resolve to no account.
UnresolvedIds ==
    {request.enrollments_info[i].user_id : i \in DOMAIN request.enrollments_info}
    \ (Accounts \cup {None})

\* The emails validate_email_to_link or link_user rejected.
RejectedEmails == request.validate_raised \cup request.link_raised

\* The email a request stands for: the one given, or the one of its account.
EmailOf(info) ==
    IF info.user_id = None THEN info.email
    ELSE IF info.user_id \in Accounts THEN UserEmail[info.user_id]
    ELSE None

\* C1: a validated bulk-enrollment request answers 409 whenever the
\* enrollment collaborator reported a failure, a user id resolved to no
\* account, or an email was rejected, whatever else succeeded or is pending.
C1_ConflictOnAnyFailure ==
    EnrollDone =>
        ((results.failures # <<>> \/ UnresolvedIds # {} \/ RejectedEmails # {})
            => status = HTTP_409_CONFLICT)

\* A failure next to a pending item of the same batch.
C1_Witness ==
    /\ EnrollDone
    /\ status = HTTP_409_CONFLICT
    /\ results.failures # <<>>
    /\ results.pending # <<>>

\* C2: without failures and invalid identities the answer is 202 if anything
\* is pending and 201 only if nothing is; 201 never goes with a pending or
\* failed item.
C2_StatusPrecedence ==
    EnrollDone =>
        /\ (results.failures = <<>> /\ UnresolvedIds = {} /\ RejectedEmails = {})
            => /\ results.pending # <<>> => status = HTTP_202_ACCEPTED
               /\ results.pending = <<>> => status = HTTP_201_CREATED
        /\ status = HTTP_201_CREATED
            => /\ results.pending = <<>>
               /\ results.failures = <<>>
               /\ UnresolvedIds = {}
               /\ RejectedEmails = {}

\* A success and a pending item in one batch: 202.
C2_Witness ==
    /\ EnrollDone
    /\ status = HTTP_202_ACCEPTED
    /\ results.successes # <<>>
    /\ results.pending # <<>>

\* C3 as stated: zero failures and zero pending from the collaborator give 201.
C3_Original ==
    EnrollDone =>
        ((results.failures = <<>> /\ results.pending = <<>>)
            => status = HTTP_201_CREATED)

\* C3 as amended: zero failures and zero pending from the collaborator give
\* 201 provided no user id of the request was unresolvable and no email was
\* rejected.
C3_AllSucceeded ==
    EnrollDone =>
        ((/\ results.failures = <<>>
          /\ results.pending = <<>>
          /\ UnresolvedIds = {}
          /\ RejectedEmails = {})
            => status = HTTP_201_CREATED)

\* A batch of two requests that both succeeded.
C3_Witness ==
    /\ EnrollDone
    /\ status = HTTP_201_CREATED
    /\ Len(results.successes) = 2
    /\ results.failures = <<>>
    /\ results.pending = <<>>

\* A request is bad when its user id resolves to no account or its email
\* was rejected.
BadRequest(info) ==
    \/ info.user_id \in UnresolvedIds
    \/ EmailOf(info) \in RejectedEmails

Identity(info) ==
    [user_id |-> info.user_id, email |-> EmailOf(info),
     course_run_key |-> info.course_run_key, license_uuid |-> info.license_uuid]

\* C4: every request with an unresolvable user id or a rejected email is
\* dropped before the enrollment collaborator is called and reported under
\* invalid_user_ids / invalid_email_addresses, its identity is in neither
\* successes nor pending, and exactly the other requests are forwarded.
C4_BadIdentitiesExcluded ==
    EnrollDone =>
        LET infos == request.enrollments_info
            answered == Range(results.successes) \cup Range(results.pending)
            good == SelectSeq(infos, LAMBDA info : ~BadRequest(info))
        IN  /\ \A i \in DOMAIN infos :
                /\ infos[i].user_id \in UnresolvedIds
                    => /\ infos[i].user_id \in Range(user_id_errors)
                       /\ \A j \in DOMAIN forwarded :
                            forwarded[j].user_id # infos[i].user_id
                /\ EmailOf(infos[i]) \in RejectedEmails
                    => /\ EmailOf(infos[i]) \in Range(email_errors)
                       /\ \A j \in DOMAIN forwarded :
                            forwarded[j].email # EmailOf(infos[i])
                       /\ \A r \in answered : r.email # EmailOf(infos[i])
            /\ \A r \in answered : r.email # None
            /\ [j \in DOMAIN forwarded |-> Identity(forwarded[j])]
                = [j \in DOMAIN good |-> Identity(good[j])]

\* A batch with an unresolvable user id whose other request went through.
C4_Witness ==
    /\ EnrollDone
    /\ UnresolvedIds # {}
    /\ results.successes # <<>>
    /\ Len(request.enrollments_info) = 2

\* The membership row of an email exists for the customer.
Linked(email) ==
    IF AccountOf(email) # None
    THEN HasCustomerUser(customer_users, EnrollCustomer, AccountOf(email))
    ELSE <<EnrollCustomer, email>> \in pending_customer_users

\* C5: the links made for the emails link_user accepted are in place when
\* the request has answered, also when link_user raised for another email of
\* the batch, when the collaborator reported failures and when the answer is
\* 409; the batch is carried through to an enrollment answer.
C5_LinksSurviveFailures ==
    EnrollDone =>
        /\ \A e \in request.emails \ request.link_raised : Linked(e)
        /\ \A l \in link_created :
            HasCustomerUser(customer_users, l[1], l[2]) \/ l \in pending_customer_users
        /\ status \in {HTTP_201_CREATED, HTTP_202_ACCEPTED, HTTP_409_CONFLICT}

\* One email newly linked, another rejected by link_user, the enrollment of
\* the first reported as failed: 409 and the new link is there.
C5_Witness ==
    /\ EnrollDone
    /\ status = HTTP_409_CONFLICT
    /\ link_created # {}
    /\ request.link_raised # {}
    /\ results.failures # <<>>

\* The links the request made for an email.
LinksCreatedFor(email) ==
    {l \in link_created : l[2] = email \/ l[2] = AccountOf(email)}

\* C20 as stated: link_user runs only for the emails validate_email_to_link
\* accepted, so no Customer User or Pending Customer User is created for an
\* email validation rejected.
C20_Original ==
    EnrollDone =>
        \A e \in request.validate_raised : LinksCreatedFor(e) = {}

\* =========================================================================
\* Properties of the termination paths (checked under SpecTermination)
\* =========================================================================
\* license_revoke or bulk_licensed_enrollments_expiration has answered.
SweepDone ==
    pc = "done" /\ op \in {"license_revoke", "bulk_licensed_enrollments_expiration"}

\* A request of one of the two handlers is being served in this step.
SweepStep ==
    pc = "idle" /\ op' \in {"license_revoke", "bulk_licensed_enrollments_expiration"}

FulfillmentOf(uuid) == CHOOSE f \in Fulfillments : f.uuid = uuid

\* The visited enrollments _terminate_enrollment ran for, to a return or to
\* its EnrollmentModificationException.
Terminated(visited) ==
    {i \in DOMAIN visited :
        visited[i].outcome \in {COURSE_COMPLETED, MOVED_TO_AUDIT, UNENROLLED,
                                EnrollmentModificationException}}

\* C6: for a learner who has not completed the course run,
\* _terminate_enrollment issues exactly one update_enrollment call, with
\* mode=audit if the course has an audit mode and with is_active=False if it
\* has none, and the status it returns is MOVED_TO_AUDIT in the first case and
\* UNENROLLED in the second (it returns nothing only when that call raised).
C6_TerminationTable ==
    SweepDone =>
        \A i \in Terminated(items) :
            LET it == items[i]
                f == FulfillmentOf(it.uuid)
            IN  ~it.platform.completed =>
                    /\ it.platform.has_audit
                        => /\ it.calls = <<AuditCall(f)>>
                           /\ it.outcome = IF it.platform.raises
                                           THEN EnrollmentModificationException
                                           ELSE MOVED_TO_AUDIT
                    /\ ~it.platform.has_audit
                        => /\ it.calls = <<DeactivateCall(f)>>
                           /\ it.outcome = IF it.platform.raises
                                           THEN EnrollmentModificationException
                                           ELSE UNENROLLED

\* One sweep that moved one enrollment to audit and unenrolled another.
C6_Witness ==
    /\ SweepDone
    /\ \E i, j \in DOMAIN items :
        /\ items[i].outcome = MOVED_TO_AUDIT
        /\ items[i].calls = <<AuditCall(FulfillmentOf(items[i].uuid))>>
        /\ items[j].outcome = UNENROLLED
        /\ items[j].calls = <<DeactivateCall(FulfillmentOf(items[j].uuid))>>

\* C7: when the learner has completed the course run the outcome is
\* COURSE_COMPLETED with or without an audit mode, no update_enrollment call
\* is issued for the enrollment, and its is_revoked flag is what it was.
C7_CompletedLeftAlone ==
    [][SweepStep =>
        \A i \in Terminated(items') :
            items'[i].platform.completed =>
                /\ items'[i].outcome = COURSE_COMPLETED
                /\ items'[i].calls = <<>>
                /\ \A k \in DOMAIN calls' :
                    ~(/\ calls'[k].username = FulfillmentOf(items'[i].uuid).user
                      /\ calls'[k].course_id = FulfillmentOf(items'[i].uuid).course_id)
                /\ is_revoked'[items'[i].uuid] = is_revoked[items'[i].uuid]]_vars

\* Two completed enrollments in one call, one in a course with an audit mode
\* and one in a course without; neither is revoked.
C7_Witness ==
    /\ SweepDone
    /\ \E i, j \in DOMAIN items :
        /\ items[i].platform.completed /\ items[i].platform.has_audit
        /\ items[j].platform.completed /\ ~items[j].platform.has_audit
        /\ items[i].outcome = COURSE_COMPLETED
        /\ items[j].outcome = COURSE_COMPLETED
        /\ ~is_revoked[items[i].uuid]
        /\ ~is_revoked[items[j].uuid]

\* C8: in both handlers a licensed enrollment is revoked by the call exactly
\* when _terminate_enrollment returned MOVED_TO_AUDIT or UNENROLLED for it;
\* with COURSE_COMPLETED, and when the external update raised, its flag is
\* left as it was.
C8_RevokeIffNotCompleted ==
    [][SweepStep =>
        /\ \A i \in Terminated(items') :
            LET it == items'[i]
            IN  /\ it.outcome \in {MOVED_TO_AUDIT, UNENROLLED}
                    => it.revoke_called /\ is_revoked'[it.uuid]
                /\ it.outcome \in {COURSE_COMPLETED, EnrollmentModificationException}
                    => ~it.revoke_called /\ is_revoked'[it.uuid] = is_revoked[it.uuid]
                /\ (~it.platform.completed /\ it.platform.raises)
                    => it.outcome = EnrollmentModificationException
        /\ \A u \in FulfillmentUuids :
            is_revoked'[u] # is_revoked[u]
                => \E i \in Terminated(items') :
                    /\ items'[i].uuid = u
                    /\ items'[i].outcome \in {MOVED_TO_AUDIT, UNENROLLED}]_vars

\* One call that revoked one enrollment, left a completed one alone and
\* failed on a third.
C8_Witness ==
    /\ SweepDone
    /\ \E i, j \in DOMAIN items :
        /\ items[i].outcome = UNENROLLED /\ is_revoked[items[i].uuid]
        /\ items[j].outcome = EnrollmentModificationException
        /\ ~is_revoked[items[j].uuid]

\* cancel_enrollment is being served for a fulfillment the caller's queryset
\* holds.
CancelStep ==
    /\ pc = "idle"
    /\ op' = "cancel_enrollment"
    /\ request'.found

\* C9 as stated: cancelling a non-revoked fulfillment whose course is
\* completed issues no deactivation and does not revoke.
C9_Original ==
    [][(/\ CancelStep
        /\ request'.completed
        /\ ~is_revoked[request'.fulfillment_source_uuid])
        => /\ calls' = <<>>
           /\ is_revoked' = is_revoked]_vars

\* C9 as amended: cancel_enrollment does not consult course completion; for
\* a non-revoked fulfillment whose course is completed it issues the one
\* update_enrollment(is_active=False) call and, if that call returns, revokes
\* the fulfillment and answers 200; if it raises, it answers 500 and the
\* fulfillment stays non-revoked.
C9_CancelIgnoresCompletion ==
    [][(/\ CancelStep
        /\ request'.completed
        /\ ~is_revoked[request'.fulfillment_source_uuid])
        => LET u == request'.fulfillment_source_uuid
           IN  /\ calls' = <<DeactivateCall(FulfillmentOf(u))>>
               /\ request'.raises
                    => status' = HTTP_500_INTERNAL_SERVER_ERROR /\ ~is_revoked'[u]
               /\ ~request'.raises
                    => status' = HTTP_200_OK /\ is_revoked'[u]
               /\ \A v \in FulfillmentUuids \ {u} : is_revoked'[v] = is_revoked[v]]_vars

\* A completed course whose fulfillment was cancelled and revoked.
C9_Witness ==
    /\ pc = "done"
    /\ op = "cancel_enrollment"
    /\ request.completed
    /\ status = HTTP_200_OK
    /\ calls # <<>>
    /\ is_revoked[request.fulfillment_source_uuid]

\* C10: cancel_enrollment on a fulfillment that is already revoked changes
\* nothing: every flag stays, no update_enrollment call is issued, and the
\* answer is 400 for every caller whose queryset holds the fulfillment (404
\* for one it is hidden from); reachable states include any number of
\* earlier cancellations.
C10_CancelRevokedIsNoOp ==
    [][(/\ pc = "idle"
        /\ op' = "cancel_enrollment"
        /\ request'.fulfillment_source_uuid \in FulfillmentUuids
        /\ is_revoked[request'.fulfillment_source_uuid])
        => /\ is_revoked' = is_revoked
           /\ calls' = <<>>
           /\ status' = IF request'.found
                        THEN HTTP_400_BAD_REQUEST ELSE HTTP_404_NOT_FOUND]_vars

\* The 400 answer of a repeated cancellation.
C10_Witness ==
    /\ pc = "done"
    /\ op = "cancel_enrollment"
    /\ request.found
    /\ status = HTTP_400_BAD_REQUEST
    /\ calls = <<>>
    /\ is_revoked[request.fulfillment_source_uuid]

\* bulk_licensed_enrollments_expiration is being served with a readable
\* ignore_enrollments_modified_after.
CutoffSweepStep ==
    /\ pc = "idle"
    /\ op' = "bulk_licensed_enrollments_expiration"
    /\ request'.ignore_enrollments_modified_after = "valid"
    /\ request'.expired_license_uuids # {}

\* The visited enrollments that were non-revoked and last modified at or
\* after the cutoff.
ModifiedPastCutoff(visited, flags) ==
    {i \in DOMAIN visited :
        /\ ~flags[visited[i].uuid]
        /\ visited[i].world.modified_at # NoTime
        /\ visited[i].world.modified_at >= CutoffTime}

\* C11: in a sweep with a cutoff, a non-revoked enrollment last modified at
\* or after the cutoff (equality included) is skipped: _terminate_enrollment
\* is not run for it, no update_enrollment call names it, it stays
\* non-revoked, and the status is what the other enrollments alone give.
C11_CutoffSkips ==
    [][CutoffSweepStep =>
        LET skipped == ModifiedPastCutoff(items', is_revoked)
            others == SelectSeq(items', LAMBDA it :
                        ~(/\ ~is_revoked[it.uuid]
                          /\ it.world.modified_at # NoTime
                          /\ it.world.modified_at >= CutoffTime))
        IN  /\ \A i \in skipped :
                LET f == FulfillmentOf(items'[i].uuid)
                IN  /\ i \notin Terminated(items')
                    /\ items'[i].outcome = MODIFIED_AFTER_CUTOFF
                    /\ items'[i].calls = <<>>
                    /\ \A k \in DOMAIN calls' :
                        ~(calls'[k].username = f.user /\ calls'[k].course_id = f.course_id)
                    /\ ~items'[i].revoke_called
                    /\ ~is_revoked'[items'[i].uuid]
            /\ status' = revocation_status(others)]_vars

\* A sweep that skipped an enrollment modified exactly at the cutoff and
\* unenrolled one modified before it.
C11_Witness ==
    /\ pc = "done"
    /\ op = "bulk_licensed_enrollments_expiration"
    /\ \E i, j \in DOMAIN items :
        /\ items[i].world.modified_at = CutoffTime
        /\ items[i].outcome = MODIFIED_AFTER_CUTOFF
        /\ ~is_revoked[items[i].uuid]
        /\ items[j].world.modified_at # NoTime
        /\ items[j].world.modified_at < CutoffTime
        /\ items[j].outcome = UNENROLLED
        /\ is_revoked[items[j].uuid]

\* The enrollments the loop of the request being served runs over, in order:
\* for license_revoke the learner's licensed enrollments whose course has an
\* overview, for the sweep the enrollments of the expired licenses; none when
\* the request is answered before the loop.
LoopTargets(req) ==
    IF req.kind = "license_revoke"
    THEN IF req.user_id = None \/ req.enterprise_id = None THEN <<>>
         ELSE SelectSeq(enrollments_for_licensed_user(req.enterprise_id, req.user_id),
                        LAMBDA f : f.course_id \in req.overviews)
    ELSE IF req.ignore_enrollments_modified_after = "malformed" THEN <<>>
         ELSE SelectSeq(LicensedEnrollments,
                        LAMBDA f : f.license_uuid \in req.expired_license_uuids)

\* The request of this step gets as far as the loop.
LoopReached ==
    /\ SweepStep
    /\ status' \notin {HTTP_400_BAD_REQUEST, HTTP_404_NOT_FOUND}

UuidsOf(seq) == [i \in DOMAIN seq |-> seq[i].uuid]

Failed(visited) ==
    {i \in DOMAIN visited : visited[i].outcome = EnrollmentModificationException}

Crashed(visited) == {i \in DOMAIN visited : visited[i].outcome \in Crashes}

ForeignStep ==
    /\ pc = "idle"
    /\ op' \in {"retrieve", "cancel_enrollment"}
    /\ request'.fulfillment_source_uuid \in FulfillmentUuids
    /\ FulfillmentOf(request'.fulfillment_source_uuid).customer # request'.caller.customer

ValidationErrorStep ==
    /\ pc = "idle"
    /\ op' \in {"enroll_learners_in_courses", "license_revoke",
                "bulk_licensed_enrollments_expiration"}
    /\ status' = HTTP_400_BAD_REQUEST

\* The input of the request served in this step is invalid: the payload of
\* enroll_learners_in_courses fails the serializer, license_revoke lacks
\* user_id or enterprise_id, the sweep lacks expired_license_uuids or has an
\* unreadable ignore_enrollments_modified_after.
InvalidInput(req) ==
    \/ req.kind = "enroll" /\ ~req.valid
    \/ req.kind = "license_revoke" /\ (req.user_id = None \/ req.enterprise_id = None)
    \/ req.kind = "bulk_expiration"
        /\ (\/ req.expired_license_uuids = {}
            \/ req.ignore_enrollments_modified_after = "malformed")

\* C14: a request with invalid input is answered 400, and a 400 answer of
\* the three handlers comes with no link created, no call of the enrollment
\* collaborator, no update_enrollment call and no fulfillment revoked.
C14_ValidationBeforeMutation ==
    [][(pc = "idle" /\ pc' = "done") =>
        /\ InvalidInput(request') => status' = HTTP_400_BAD_REQUEST
        /\ ValidationErrorStep =>
            /\ InvalidInput(request')
            /\ customer_users' = customer_users
            /\ pending_customer_users' = pending_customer_users
            /\ link_created' = {}
            /\ forwarded' = <<>>
            /\ results' = NoResults
            /\ calls' = <<>>
            /\ items' = <<>>
            /\ is_revoked' = is_revoked]_vars

\* A sweep with a malformed cutoff answered 400 after an earlier request had
\* revoked one of the learner's enrollments, which stands.
C14_Witness ==
    /\ pc = "done"
    /\ op = "bulk_licensed_enrollments_expiration"
    /\ status = HTTP_400_BAD_REQUEST
    /\ request.expired_license_uuids # {}
    /\ request.ignore_enrollments_modified_after = "malformed"
    /\ is_revoked["lic-u1-c1"]
    /\ ~is_revoked["lic-u1-c2"]

\* =========================================================================
\* Properties of unlink_users (checked under SpecUnlink)
\* =========================================================================
\* unlink_users is being served with a payload the serializer accepts.
UnlinkStep ==
    /\ pc = "idle"
    /\ op' = "unlink_users"
    /\ request'.valid

\* C15: when unlink_user fails for an email of the batch with an error other
\* than DoesNotExist, the request ends in UnlinkUserFromEnterpriseError and
\* the Customer Users and Pending Customer Users are as they were before the
\* call, whatever was unlinked earlier in the loop; without such an error
\* the answer is 200 and every unlink made stands.
C15_UnlinkAllOrNothing ==
    [][UnlinkStep =>
        IF request'.unlink_raised # {}
        THEN /\ request'.exception = UnlinkUserFromEnterpriseError
             /\ status' = HTTP_500_INTERNAL_SERVER_ERROR
             /\ customer_users' = customer_users
             /\ pending_customer_users' = pending_customer_users
        ELSE /\ request'.exception = None
             /\ status' = HTTP_200_OK
             /\ \A k \in DOMAIN request'.unlinked :
                 LET email == request'.unlinked[k]
                 IN  IF AccountOf(email) # None
                     THEN \A i \in CustomerUsersOf(customer_users', EnrollCustomer,
                                                   AccountOf(email)) :
                            ~customer_users'[i].linked
                     ELSE <<EnrollCustomer, email>> \notin pending_customer_users']_vars

\* A batch whose first email was unlinked inside the transaction and whose
\* second raised: the first learner is linked as before.
C15_Witness ==
    /\ pc = "done"
    /\ op = "unlink_users"
    /\ request.valid
    /\ request.exception = UnlinkUserFromEnterpriseError
    /\ request.unlinked = <<"eu1">>
    /\ \E i \in CustomerUsersOf(customer_users, "ent1", "u1") : customer_users[i].linked

\* =========================================================================
\* Properties across handlers (checked under SpecErrors)
\* =========================================================================
\* What holds of the failures of enroll_learners_in_courses, license_revoke
\* and cancel_enrollment once they have answered: a rejected email is in
\* invalid_email_addresses, an unresolvable user id in invalid_user_ids; an
\* enrollment license_revoke failed on has its entry in revocation_results
\* with success false; a failed deactivation of cancel_enrollment is
\* answered 500 with its message.
FailuresWithEntry ==
    /\ EnrollDone =>
        /\ RejectedEmails \subseteq Range(email_errors)
        /\ UnresolvedIds \subseteq Range(user_id_errors)
    /\ (pc = "done" /\ op = "license_revoke") =>
        \A i \in Failed(items) :
            LET course_id == FulfillmentOf(items[i].uuid).course_id
            IN  /\ course_id \in DOMAIN data
                /\ ~data[course_id].success
                /\ data[course_id].message = EnrollmentModificationException
    /\ (pc = "done" /\ op = "cancel_enrollment" /\ request.found /\ calls # <<>>
            /\ request.raises) =>
        /\ status = HTTP_500_INTERNAL_SERVER_ERROR
        /\ data = TERMINATION_ERROR_MSG
    /\ (pc = "done" /\ op = "unlink_users" /\ request.valid
            /\ request.unlink_raised # {}) =>
        request.exception = UnlinkUserFromEnterpriseError

SamePair(t1, t2) ==
    /\ t1 # t2
    /\ threads[t1].customer # None
    /\ threads[t1].customer = threads[t2].customer
    /\ threads[t1].user_id = threads[t2].user_id

\* C17: under every interleaving of two linking requests no (customer, user)
\* pair has more than one Customer User row; when two requests for the same
\* pair have both answered, the pair has exactly one row and at most one of
\* them answered 201.
C17_SingleRowUnderRace ==
    /\ \A c \in Customers, u \in Accounts :
        Cardinality(CustomerUsersOf(customer_users, c, u)) <= 1
    /\ \A t1, t2 \in Threads :
        (SamePair(t1, t2) /\ threads[t1].pc = "done" /\ threads[t2].pc = "done") =>
            /\ Cardinality(CustomerUsersOf(customer_users, threads[t1].customer,
                                           threads[t1].user_id)) = 1
            /\ ~(/\ threads[t1].status = HTTP_201_CREATED
                 /\ threads[t2].status = HTTP_201_CREATED)

\* Both requests looked the pair up before either inserted it; one insert
\* went through and the other request fetched its row: 201 and 200.
C17_Witness ==
    /\ SamePair("t1", "t2")
    /\ threads["t1"].kind = "invite" /\ threads["t2"].kind = "invite"
    /\ threads["t1"].pc = "done" /\ threads["t2"].pc = "done"
    /\ threads["t1"].status = HTTP_201_CREATED
    /\ threads["t2"].status = HTTP_200_OK
    /\ ~threads["t2"].created
    /\ Cardinality(CustomerUsersOf(customer_users, "ent1", "u4")) = 1

\* =========================================================================
\* Properties of subsidy fulfillments (checked under SpecSubsidies)
\* =========================================================================
\* The non-revoked fulfillments that back a (user, course) pair.
Backing(user, course) ==
    {f \in Fulfillments : f.user = user /\ f.course_id = course /\ ~is_revoked[f.uuid]}

AtMostOneBacking ==
    \A f \in Fulfillments : Cardinality(Backing(f.user, f.course_id)) <= 1

\* Two forwarded requests for one (email, course run) under different
\* subsidy references.
ForwardedTwice(i, j) ==
    /\ i # j
    /\ forwarded[i].email = forwarded[j].email
    /\ forwarded[i].course_run_key = forwarded[j].course_run_key
    /\ forwarded[i].license_uuid # forwarded[j].license_uuid

InviteStep ==
    /\ pc = "idle"
    /\ op' = "link_user"
    /\ request'.pk \in InviteKeys

\* C19: for a key that exists, link_user answers by the key's validity and
\* the caller's membership: an invalid key gives 422 and leaves every
\* Customer User as it was; a valid key without a membership creates one
\* that carries the key and gives 201; a valid key with an active, linked
\* membership gives 200 and leaves the row, its invite_key included, as it
\* was; with an inactive or unlinked membership it re-links, which gives 422
\* when link_user raises and otherwise 200 with the row active and linked.
C19_InviteKeyAnswers ==
    [][InviteStep =>
        LET r == request'
            customer == InviteKeyCustomer[r.pk]
            rows == CustomerUsersOf(customer_users, customer, r.user_id)
        IN  /\ ~r.is_valid =>
                /\ status' = HTTP_422_UNPROCESSABLE_ENTITY
                /\ customer_users' = customer_users
            /\ r.is_valid /\ rows = {} =>
                /\ status' = HTTP_201_CREATED
                /\ customer_users' =
                     Append(customer_users,
                            [NewCustomerUser(customer, r.user_id) EXCEPT !.invite_key = r.pk])
            /\ r.is_valid /\ rows # {} =>
                \A i \in rows :
                    IF customer_users[i].active /\ customer_users[i].linked
                    THEN /\ status' = HTTP_200_OK
                         /\ customer_users' = customer_users
                    ELSE IF r.link_raises
                    THEN status' = HTTP_422_UNPROCESSABLE_ENTITY
                    ELSE /\ status' = HTTP_200_OK
                         /\ customer_users'[i].active
                         /\ customer_users'[i].linked
                         /\ Len(customer_users') = Len(customer_users)
    ]_vars

\* The inactive learner of the second customer redeemed its key and is a
\* member again, while the active learner of the first, who redeemed a key
\* too, still carries no invite key.
C19_Witness ==
    /\ pc = "done"
    /\ op = "link_user"
    /\ status = HTTP_200_OK
    /\ request.pk = "ik1"
    /\ request.user_id = "u2"
    /\ request.is_valid
    /\ \A i \in CustomerUsersOf(customer_users, "ent1", "u2") :
          customer_users[i].active /\ customer_users[i].invite_key = None
    /\ \A i \in CustomerUsersOf(customer_users, "ent2", "u3") :
          customer_users[i].active /\ customer_users[i].linked
          /\ customer_users[i].invite_key = "ik2"

\* =========================================================================
\* Properties of repeated terminations (checked under SpecTermination)
\* =========================================================================
\* C21 as stated: neither license_revoke nor the expiration sweep runs
\* _terminate_enrollment for a licensed enrollment that is already revoked,
\* so no update_enrollment call is issued for it and running either a second
\* time on the same enrollments changes nothing.
C21_Original ==
    [][SweepStep =>
        /\ \A i \in Terminated(items') : ~is_revoked[items'[i].uuid]
        /\ \A i \in DOMAIN items' :
              is_revoked[items'[i].uuid] => items'[i].calls = <<>>]_vars

\* =========================================================================
\* Properties of the tail of enroll_learners_in_courses (checked under
\* SpecEnroll)
\* =========================================================================
\* The course runs the request names.
RequestedCourseRuns ==
    {request.enrollments_info[i].course_run_key : i \in DOMAIN request.enrollments_info}

\* The success and pending results of a course run that are newly created.
NewlyCreated(course_run) ==
    {r \in Range(results.successes) \cup Range(results.pending) :
        r.course_run_key = course_run /\ r.created}

\* The positions of a value in a sequence.
Positions(s, x) == {i \in DOMAIN s : s[i] = x}

\* C22: for every course run of the request, exactly one tracking event is
\* emitted when a success or pending result of it is newly created and, with
\* notify, notify_enrolled_learners is called exactly once for it, with all
\* its newly created learners; without a newly created result there is
\* neither; without notify there is no notification at all.
C22_OncePerCourseRun ==
    EnrollDone =>
        /\ \A course_run \in RequestedCourseRuns :
            LET events == Positions(outbound.tracked, course_run)
                notices == {i \in DOMAIN outbound.notified :
                               outbound.notified[i].course_id = course_run}
            IN  IF NewlyCreated(course_run) # {}
                THEN /\ Cardinality(events) = 1
                     /\ IF request.notify
                        THEN /\ Cardinality(notices) = 1
                             /\ \A i \in notices :
                                   outbound.notified[i].users =
                                       {r.user : r \in NewlyCreated(course_run)}
                        ELSE notices = {}
                ELSE events = {} /\ notices = {}
        /\ Range(outbound.tracked) \subseteq RequestedCourseRuns
        /\ \A i \in DOMAIN outbound.notified :
              outbound.notified[i].course_id \in RequestedCourseRuns

\* Two newly enrolled learners of one course run, one of them pending, were
\* announced in one event and one notification.
C22_Witness ==
    /\ EnrollDone
    /\ request.notify
    /\ Len(outbound.tracked) = 1
    /\ Len(outbound.notified) = 1
    /\ Cardinality(outbound.notified[1].users) = 2
    /\ Len(results.pending) = 1
    /\ Len(results.successes) = 1

\* C23: the enrollment mode is looked up exactly once for every distinct
\* course run of the request and for nothing else, however many requests
\* name the course run, and every request forwarded to the collaborator
\* carries the mode of its own course run.
C23_ModeOncePerCourseRun ==
    EnrollDone =>
        /\ Range(outbound.mode_lookups) = RequestedCourseRuns
        /\ \A course_run \in RequestedCourseRuns :
              Cardinality(Positions(outbound.mode_lookups, course_run)) = 1
        /\ \A j \in DOMAIN forwarded :
              forwarded[j].course_mode =
                  get_best_mode_from_course_key(forwarded[j].course_run_key)

\* Two requests for the audit-only course run, both forwarded with mode
\* audit after a single lookup.
C23_Witness ==
    /\ EnrollDone
    /\ outbound.mode_lookups = <<"c2">>
    /\ Len(forwarded) = 2
    /\ forwarded[1].course_mode = "audit"
    /\ forwarded[2].course_mode = "audit"

\* =========================================================================
\* Properties of failing platform calls (checked under SpecTermination)
\* =========================================================================
\* C24: when the update_enrollment call of _terminate_enrollment raises, in
\* the audit step or in the deactivation step, the caller gets an
\* EnrollmentModificationException and treats the enrollment as failed;
\* MOVED_TO_AUDIT or UNENROLLED is returned only after a call that did not
\* raise.
C24_FailureIsPropagated ==
    SweepDone =>
        \A i \in Terminated(items) :
            LET it == items[i]
            IN  /\ (it.calls # <<>> /\ it.platform.raises)
                    => /\ it.outcome = EnrollmentModificationException
                       /\ ~it.success
                       /\ ~it.revoke_called
                       /\ status # HTTP_200_OK
                /\ it.outcome \in {MOVED_TO_AUDIT, UNENROLLED}
                    => /\ Len(it.calls) = 1
                       /\ ~it.platform.raises
                /\ it.outcome = EnrollmentModificationException
                    => it.calls # <<>> /\ it.platform.raises

\* One request in which the audit downgrade of one enrollment and the
\* deactivation of another both failed.
C24_Witness ==
    /\ SweepDone
    /\ \E i, j \in DOMAIN items :
        /\ items[i].outcome = EnrollmentModificationException
        /\ items[i].calls = <<AuditCall(FulfillmentOf(items[i].uuid))>>
        /\ items[j].outcome = EnrollmentModificationException
        /\ items[j].calls = <<DeactivateCall(FulfillmentOf(items[j].uuid))>>

\* The deactivation the request asked the platform for went through.
Deactivated(issued, raised) ==
    issued # <<>> /\ ~raised

\* C25: cancel_enrollment revokes only after a deactivation that did not
\* raise: when update_enrollment raises the answer is 500 and is_revoked
\* stays false; a 200 means the deactivation was issued, went through, and
\* the fulfillment is revoked; after either answer the fulfillment is
\* revoked exactly when its enrollment was deactivated, and no other
\* fulfillment changed.
C25_RevokedOnlyWhenDeactivated ==
    [][(CancelStep /\ ~is_revoked[request'.fulfillment_source_uuid])
        => LET u == request'.fulfillment_source_uuid
           IN  /\ request'.raises
                    => /\ status' = HTTP_500_INTERNAL_SERVER_ERROR
                       /\ data' = TERMINATION_ERROR_MSG
                       /\ ~is_revoked'[u]
               /\ status' = HTTP_200_OK
                    => /\ calls' = <<DeactivateCall(FulfillmentOf(u))>>
                       /\ ~request'.raises
                       /\ is_revoked'[u]
               /\ status' \in {HTTP_200_OK, HTTP_500_INTERNAL_SERVER_ERROR}
               /\ is_revoked'[u] <=> Deactivated(calls', request'.raises)
               /\ \A v \in FulfillmentUuids \ {u} : is_revoked'[v] = is_revoked[v]]_vars

\* A cancellation whose deactivation failed: 500, the call was issued, the
\* fulfillment is still not revoked.
C25_Witness ==
    /\ pc = "done"
    /\ op = "cancel_enrollment"
    /\ request.found
    /\ request.raises
    /\ status = HTTP_500_INTERNAL_SERVER_ERROR
    /\ calls # <<>>
    /\ ~is_revoked[request.fulfillment_source_uuid]

\* =========================================================================
\* Properties of the modification-time helper (checked under SpecHistory)
\* =========================================================================
\* The history dates of one (user, course) pair.
DatesOf(pair, table) ==
    {h.history_date : h \in {h \in table :
        h.user_id = pair.user_id /\ h.course_id = pair.course_id}}

\* C26 as stated: the time the sweep compares with the cutoff for an
\* enrollment is the most recent history_date among the history entries of
\* exactly its (user, course) pair, and there is none when the pair has no
\* entry, whatever other pairs the sweep holds.
C26_Original ==
    (pc = "done" /\ op = "_course_enrollment_modified_at_by_user_and_course_id") =>
        \A pair \in request.enrollments :
            LET key == history_key(pair.user_id, pair.course_id)
                dates == DatesOf(pair, request.histories)
            IN  IF dates = {}
                THEN key \notin DOMAIN data
                ELSE /\ key \in DOMAIN data
                     /\ data[key] \in dates
                     /\ \A d \in dates : d <= data[key]

\* =========================================================================
\* Properties of the bulk-enrollment answer (checked under SpecEnroll)
\* =========================================================================
\* C27: in the answer of every validated request no entry of successes or
\* pending holds a 'user' reference, newly created or not; apart from that
\* reference the entries are those the collaborator returned.
C27_UsersStripped ==
    EnrollDone =>
        \A kind \in {"successes", "pending"} :
            /\ Len(data[kind]) = Len(results[kind])
            /\ \A i \in DOMAIN data[kind] :
                  /\ "user" \notin DOMAIN data[kind][i]
                  /\ "user" \in DOMAIN results[kind][i]
                  /\ data[kind][i] = pop_user(results[kind][i])

\* An answer with a newly created pending entry and a success that was
\* there already, both without their user object.
C27_Witness ==
    /\ EnrollDone
    /\ Len(results.pending) = 1
    /\ results.pending[1].created
    /\ Len(results.successes) = 1
    /\ ~results.successes[1].created
    /\ "user" \notin DOMAIN data.pending[1]
    /\ "user" \notin DOMAIN data.successes[1]

\* -------------------------------------------------------------------------
\* C28
\* -------------------------------------------------------------------------
\* The call of the request thread t is serving returned.
CallReturned(t) ==
    /\ "uuid" \in DOMAIN threads[t]
    /\ threads[t].returned

\* C28 as stated: of two terminations of one fulfillment served side by
\* side, at most one gets an update_enrollment call through: no request
\* passes the test of is_revoked between another's test and its revoke().
C28_Original ==
    \A t1, t2 \in Threads :
        (/\ t1 # t2
         /\ CallReturned(t1)
         /\ CallReturned(t2)) => threads[t1].uuid # threads[t2].uuid

\* -------------------------------------------------------------------------
\* C29
\* -------------------------------------------------------------------------
\* C29 as stated: a sweep with a readable cutoff visits every enrollment of
\* the expired licenses and answers 200 or 422, whatever history entries and
\* course overviews exist for them.
C29_Original ==
    [][CutoffSweepStep =>
        /\ status' \in {HTTP_200_OK, HTTP_422_UNPROCESSABLE_ENTITY}
        /\ UuidsOf(items') = UuidsOf(LoopTargets(request'))]_vars

\* -------------------------------------------------------------------------
\* C30
\* -------------------------------------------------------------------------
\* The emails of the request that validate_email_to_link or link_user
\* rejected.
RejectedOfRequest ==
    {EmailOf(request.enrollments_info[i]) : i \in DOMAIN request.enrollments_info}
        \cap RejectedEmails

\* The positions of a list that hold e.
Occurrences(list, e) == {i \in DOMAIN list : list[i] = e}

\* C30 as stated: the response lists each rejected email exactly once under
\* invalid_email_addresses, an email both validation and linking rejected
\* included, and carries the keys invalid_email_addresses and
\* invalid_user_ids exactly when there is something to list.
C30_Original ==
    EnrollDone =>
        /\ ("invalid_email_addresses" \in DOMAIN data) <=> (RejectedOfRequest # {})
        /\ ("invalid_user_ids" \in DOMAIN data) <=> (UnresolvedIds # {})
        /\ "invalid_email_addresses" \in DOMAIN data =>
              \A e \in RejectedOfRequest :
                  Cardinality(Occurrences(data["invalid_email_addresses"], e)) = 1

====
